---------------------------- MODULE Spec2Model ----------------------------
(***************************************************************************)
(* A model of gid, a manager of named Git identities.                      *)
(*                                                                         *)
(* Strings the code only compares for equality are TLA+ strings.  Strings  *)
(* the code looks into (identity ids, e-mail addresses, the content of a   *)
(* .gid file) are sequences of one-character strings.  Path and remote     *)
(* patterns, paths and URLs are sequences of tokens in which every         *)
(* separator ("/", ":", "git@", "https://", ".git") and every wildcard     *)
(* ("*", "**", "~") is a token of its own and every other token is a whole *)
(* path component or host name.  An Option<T> is a sequence of length 0    *)
(* (None) or 1 (Some).                                                     *)
(***************************************************************************)
EXTENDS Integers, Sequences, FiniteSets, TLC

VARIABLES
    identities,   \* Config.identities : Vec<Identity>
    rules,        \* Config.rules : Vec<Rule>
    settings,     \* Config.settings : Settings
    store_result  \* outcome of the last store command: "none", "ok", "err"

storeVars == <<identities, rules, settings, store_result>>

VARIABLES
    home_dir,     \* home::home_dir() : Option<PathBuf>
    m_context,    \* the MatchContext of the request
    m_first,      \* Some(index match_context returned), None before the call
    m_all         \* Some(list match_all returned), None before the call

matchVars == <<home_dir, m_context, m_first, m_all>>

VARIABLES
    gid_file,     \* content of the .gid file of the directory, None if absent
    cwd,          \* the current (or audited) directory
    origin_url,   \* url of the remote "origin", None if there is none
    in_repo,      \* whether the directory is inside a git repository
    git_local,    \* the repository's git configuration
    git_global,   \* the user's global git configuration
    auto_out,     \* what the last run of auto did, None before it
    expected      \* Some(result of get_expected_identity), None before it

resolveVars ==
    <<gid_file, cwd, origin_url, in_repo, git_local, git_global, auto_out, expected>>

VARIABLES
    odb,          \* the commit objects; an object's id is its index
    refs,         \* branch name -> id of the commit it points to, 0 if absent
    head,         \* HEAD: symbolic to a branch, or detached at a commit
    statuses,     \* repo.statuses(None): the uncommitted changes
    f_pc,         \* position of the running fix-commit command
    f_args,       \* its arguments: commit_ref, identity_id, range, yes
    f_identity,   \* the identity it resolved, None before that
    f_new,        \* id of the commit object it created, 0 if none
    f_result,     \* "none" while running, then "ok" or "err"
    f_answer,     \* answer to its confirmation prompt: "none", "yes", "no", "err"
    f_pre         \* the repository as it was when the command started

fixVars ==
    <<odb, refs, head, statuses, f_pc, f_args, f_identity, f_new, f_result,
      f_answer, f_pre>>

VARIABLES
    commits,      \* the history of the audited repository, newest commit first
    audit_result  \* Some(result of audit_repo), None before the audit

auditVars == <<commits, audit_result>>

VARIABLES
    export_file,   \* the file gid export wrote, None before the first export
    export_source, \* the configuration that file was written from
    import_mode    \* what the last import of it did: "none", "merge",
                   \* "replace", "fresh", "cancel", "empty"

transferVars == <<export_file, export_source, import_mode>>

VARIABLES
    sw_last,      \* the last switch command: identity_id, global, ok and how
                  \* many times in a row it has now succeeded; None before it
    effective     \* Some(effective name and e-mail gid current read), None
                  \* when not read since the last switch

switchVars == <<sw_last, effective>>

vars ==
    <<storeVars, matchVars, resolveVars, fixVars, auditVars, transferVars,
      switchVars>>

None == <<>>
Some(x) == <<x>>
IsSome(o) == o # <<>>
Unwrap(o) == o[1]

----------------------------------------------------------------------------
(* Bounds of the model *)

MaxIdentities == 3
MaxStoreRules == 2
MaxImport == 2

----------------------------------------------------------------------------
(* Generic sequence helpers *)

Range(s) == {s[i] : i \in 1..Len(s)}

SeqsUpTo(S, n) == UNION {[1..k -> S] : k \in 0..n}

RemoveAt(s, i) == SubSeq(s, 1, i - 1) \o SubSeq(s, i + 1, Len(s))

\* str.contains(c) for a character c
ContainsChar(s, c) == \E i \in 1..Len(s) : s[i] = c

----------------------------------------------------------------------------
(* Identities *)

\* char::is_alphanumeric over the alphabet of the model
AlnumChars == {"w", "k", "h", "g", "a", "b", "c"}

IsIdChar(c) == c \in AlnumChars \/ c = "_" \/ c = "-"

AllIdChars(id) == \A i \in 1..Len(id) : IsIdChar(id[i])

IdWork == <<"w", "k">>
IdHome == <<"h">>
IdGhost == <<"g">>
IdEmpty == <<>>
IdBad == <<"w", " ">>

EmailWork == <<"a", "@", "c", ".">>
EmailHome == <<"a", "@", "h", ".">>
EmailOther == <<"b", "@", "c", ".">>
EmailNoAt == <<"a", ".">>
EmailNoDot == <<"a", "@">>

\* Identity::new followed by with_description, with_ssh_key, with_gpg_key
IdentityNew(id, name, email, gpg_key) ==
    [id |-> id, name |-> name, email |-> email, description |-> None,
     ssh_key |-> None, gpg_key |-> gpg_key, gpg_sign |-> IsSome(gpg_key)]

\* Identity::validate; the ssh key file check is outside the model (ssh_key = None)
IdentityValidate(identity) ==
    /\ identity.id # <<>>
    /\ AllIdChars(identity.id)
    /\ identity.name # ""
    /\ identity.email # <<>>
    /\ ContainsChar(identity.email, "@")
    /\ ContainsChar(identity.email, ".")

\* Config::find_identity: the first identity with that id, or None
RECURSIVE FindFrom(_, _, _)
FindFrom(ids, id, i) ==
    IF i > Len(ids) THEN None
    ELSE IF ids[i].id = id THEN Some(ids[i])
    ELSE FindFrom(ids, id, i + 1)

find_identity(ids, id) == FindFrom(ids, id, 1)

\* position(|i| i.id == id): the first index with that id, 0 when there is none
RECURSIVE PositionFrom(_, _, _)
PositionFrom(ids, id, i) ==
    IF i > Len(ids) THEN 0
    ELSE IF ids[i].id = id THEN i
    ELSE PositionFrom(ids, id, i + 1)

\* Config::add_identity: [ok, identities]
add_identity(ids, identity) ==
    IF IsSome(find_identity(ids, identity.id))
    THEN [ok |-> FALSE, identities |-> ids]
    ELSE [ok |-> TRUE, identities |-> Append(ids, identity)]

\* Config::remove_identity: [ok, identities]
remove_identity(ids, id) ==
    LET index == PositionFrom(ids, id, 1)
    IN  IF index = 0
        THEN [ok |-> FALSE, identities |-> ids]
        ELSE [ok |-> TRUE, identities |-> RemoveAt(ids, index)]

----------------------------------------------------------------------------
(* Rules *)

default_priority == 100

\* Rule::path / Rule::remote followed by with_priority
RuleNew(kind, pattern, identity, priority) ==
    [kind |-> kind, pattern |-> pattern, identity |-> identity,
     priority |-> priority, description |-> None, enabled |-> TRUE]

\* The position sort_by_key (a stable sort) gives an element among sorted ones:
\* after every element whose key is not greater
RECURSIVE InsertByPriority(_, _)
InsertByPriority(sorted, r) ==
    IF sorted = <<>> THEN <<r>>
    ELSE IF sorted[1].priority <= r.priority
         THEN <<sorted[1]>> \o InsertByPriority(Tail(sorted), r)
         ELSE <<r>> \o sorted

\* rules.sort_by_key(|r| r.priority): stable
RECURSIVE SortByPriority(_)
SortByPriority(s) ==
    IF s = <<>> THEN <<>>
    ELSE InsertByPriority(SortByPriority(SubSeq(s, 1, Len(s) - 1)), s[Len(s)])

\* Config::add_rule: push, then sort the whole list by priority
add_rule(rs, rule) == SortByPriority(Append(rs, rule))

\* remove_rule taking the index as a position counted from one
Mutant_remove_rule(rs, index) ==
    IF index >= Len(rs)
    THEN [ok |-> FALSE, rules |-> rs, removed |-> None]
    ELSE [ok |-> TRUE, rules |-> RemoveAt(rs, index),
          removed |-> IF index = 0 THEN None ELSE Some(rs[index])]

\* Config::remove_rule: [ok, rules, removed]; index is 0-based as in the
\* code, removed is the rule Vec::remove returned
remove_rule(rs, index) ==
    IF index >= Len(rs)
    THEN [ok |-> FALSE, rules |-> rs, removed |-> None]
    ELSE [ok |-> TRUE, rules |-> RemoveAt(rs, index + 1),
          removed |-> Some(rs[index + 1])]

----------------------------------------------------------------------------
(* Pattern matching (rules/mod.rs) *)

RECURSIVE TrimStart(_, _)
TrimStart(s, t) ==
    IF s # <<>> /\ s[1] = t THEN TrimStart(Tail(s), t) ELSE s

RECURSIVE TrimEnd(_, _)
TrimEnd(s, t) ==
    IF s # <<>> /\ s[Len(s)] = t THEN TrimEnd(SubSeq(s, 1, Len(s) - 1), t) ELSE s

Drop(s, k) == SubSeq(s, k + 1, Len(s))

IsPrefix(p, s) == Len(p) <= Len(s) /\ SubSeq(s, 1, Len(p)) = p

\* str::contains(pattern): pattern occurs in s as a contiguous run
Contains(s, pattern) == \E k \in 0..Len(s) : IsPrefix(pattern, Drop(s, k))

\* glob::Pattern::new: an unclosed "[" is an error, and "**" must be a whole
\* path component
GlobValid(pat) ==
    /\ \A i \in 1..Len(pat) : pat[i] # "["
    /\ \A i \in 1..Len(pat) :
          pat[i] = "**" =>
              /\ (i = 1 \/ pat[i - 1] = "/")
              /\ (i = Len(pat) \/ pat[i + 1] = "/")

\* glob::Pattern::matches with the default MatchOptions: "*" matches any run
\* of characters, separators included; "**" (with the separator after it)
\* matches any run that ends at a component boundary, or everything that
\* is left when it ends the pattern
RECURSIVE GlobMatches(_, _)
GlobMatches(pat, s) ==
    IF pat = <<>> THEN s = <<>>
    ELSE IF pat[1] = "*"
         THEN \E k \in 0..Len(s) : GlobMatches(Tail(pat), Drop(s, k))
    ELSE IF pat[1] = "**"
         THEN LET rest == IF Len(pat) >= 2 /\ pat[2] = "/"
                          THEN Drop(pat, 2) ELSE Tail(pat)
              IN  \E k \in 0..Len(s) :
                     /\ k = 0 \/ s[k] = "/" \/ (rest = <<>> /\ k = Len(s))
                     /\ GlobMatches(rest, Drop(s, k))
    ELSE s # <<>> /\ s[1] = pat[1] /\ GlobMatches(Tail(pat), Tail(s))

\* std::path::Path::components: the root, then the names between separators
Components(p) ==
    IF p # <<>> /\ p[1] = "/"
    THEN <<"/">> \o SelectSeq(Tail(p), LAMBDA t : t # "/")
    ELSE SelectSeq(p, LAMBDA t : t # "/")

\* Path::starts_with: component-wise prefix
PathStartsWith(path, base) == IsPrefix(Components(base), Components(path))

\* The pattern with a leading "~/" replaced by the home directory
ExpandPattern(pattern, home) ==
    IF Len(pattern) >= 2 /\ pattern[1] = "~" /\ pattern[2] = "/" /\ IsSome(home)
    THEN Unwrap(home) \o <<"/">> \o Drop(pattern, 2)
    ELSE pattern

\* matches_path answering true for every enabled Remote rule
Mutant_matches_path(rule, path, home) ==
    IF ~rule.enabled THEN FALSE
    ELSE IF rule.kind = "path"
         THEN LET expanded_pattern == ExpandPattern(rule.pattern, home)
                  trimmed == TrimEnd(TrimEnd(expanded_pattern, "**"), "/")
              IN  \/ GlobValid(expanded_pattern) /\ GlobMatches(expanded_pattern, path)
                  \/ PathStartsWith(path, trimmed)
    ELSE TRUE

\* Rule::matches_path
matches_path(rule, path, home) ==
    IF ~rule.enabled THEN FALSE
    ELSE IF rule.kind = "path"
         THEN LET expanded_pattern == ExpandPattern(rule.pattern, home)
                  trimmed == TrimEnd(TrimEnd(expanded_pattern, "**"), "/")
              IN  \/ GlobValid(expanded_pattern) /\ GlobMatches(expanded_pattern, path)
                  \/ PathStartsWith(path, trimmed)
    ELSE FALSE

\* regex::Regex::new: an unclosed "[" or a leading repetition is an error
RegexValid(pat) ==
    /\ \A i \in 1..Len(pat) : pat[i] # "["
    /\ pat = <<>> \/ pat[1] \notin {"*", "**"}

\* The pattern as a regular expression, matched at the start of s: a token
\* followed by "*" is repeated zero or more times
RECURSIVE RegexAt(_, _)
RegexAt(pat, s) ==
    IF pat = <<>> THEN TRUE
    ELSE IF Len(pat) >= 2 /\ pat[2] = "*"
         THEN \/ RegexAt(Drop(pat, 2), s)
              \/ s # <<>> /\ s[1] = pat[1] /\ RegexAt(pat, Tail(s))
    ELSE s # <<>> /\ s[1] = pat[1] /\ RegexAt(Tail(pat), Tail(s))

\* Regex::is_match: an unanchored search
RegexIsMatch(pat, s) == \E k \in 0..Len(s) : RegexAt(pat, Drop(s, k))

\* normalize_git_url
normalize_git_url(url) ==
    IF url # <<>> /\ url[1] = "git@"
    THEN LET u1 == TrimStart(url, "git@")
             u2 == [i \in 1..Len(u1) |-> IF u1[i] = ":" THEN "/" ELSE u1[i]]
         IN  TrimEnd(u2, ".git")
    ELSE IF url # <<>> /\ url[1] \in {"https://", "http://"}
         THEN TrimEnd(TrimStart(TrimStart(url, "https://"), "http://"), ".git")
    ELSE url

\* Rule::matches_remote
matches_remote(rule, remote_url) ==
    IF ~rule.enabled THEN FALSE
    ELSE IF rule.kind = "remote"
         THEN \/ Contains(remote_url, rule.pattern)
              \/ RegexValid(rule.pattern) /\ RegexIsMatch(rule.pattern, remote_url)
              \/ GlobValid(rule.pattern)
                 /\ GlobMatches(rule.pattern, normalize_git_url(remote_url))
    ELSE FALSE

\* MatchContext::new().with_path(..).with_remote(..)
MatchContext(path, remote_url) == [path |-> path, remote_url |-> remote_url]

\* RuleHit with the path tested only when the context has no remote URL
Mutant_RuleHit(rule, context, home) ==
    IF ~rule.enabled THEN FALSE
    ELSE IF IsSome(context.remote_url)
         THEN matches_remote(rule, Unwrap(context.remote_url))
    ELSE IsSome(context.path) /\ matches_path(rule, Unwrap(context.path), home)

\* The test both RuleEngine methods apply to one rule
RuleHit(rule, context, home) ==
    IF ~rule.enabled THEN FALSE
    ELSE IF IsSome(context.remote_url)
            /\ matches_remote(rule, Unwrap(context.remote_url))
         THEN TRUE
    ELSE IF IsSome(context.path)
            /\ matches_path(rule, Unwrap(context.path), home)
         THEN TRUE
    ELSE FALSE

\* The loop of RuleEngine::match_context from rule i on: the index of the
\* rule returned, 0 for None
RECURSIVE MatchLoop(_, _, _, _)
MatchLoop(rs, context, home, i) ==
    IF i > Len(rs) THEN 0
    ELSE IF RuleHit(rs[i], context, home) THEN i
    ELSE MatchLoop(rs, context, home, i + 1)

\* RuleEngine::match_context, as the index of the rule (0 for None)
match_index(rs, context, home) == MatchLoop(rs, context, home, 1)

\* RuleEngine::match_context
match_context(rs, context, home) ==
    LET i == match_index(rs, context, home)
    IN  IF i = 0 THEN None ELSE Some(rs[i])

\* match_all without the test of the enabled flag
Mutant_match_all(rs, context, home) ==
    SelectSeq(rs, LAMBDA rule : RuleHit([rule EXCEPT !.enabled = TRUE], context, home))

\* RuleEngine::match_all
match_all(rs, context, home) ==
    SelectSeq(rs, LAMBDA rule : RuleHit(rule, context, home))

----------------------------------------------------------------------------
(* The identity store and the commands that change it *)

\* Settings::default
DefaultSettings ==
    [verbose |-> TRUE, color |-> TRUE, auto_switch |-> FALSE,
     pre_commit_check |-> TRUE, strict_mode |-> FALSE,
     editor |-> None, hooks_path |-> None]

IdentityWork == IdentityNew(IdWork, "Ann Work", EmailWork, Some("KEY1"))
IdentityHome == IdentityNew(IdHome, "Ann", EmailHome, None)
\* another identity that carries the id of IdentityWork
IdentityWorkOther == IdentityNew(IdWork, "Bob", EmailOther, None)

PathWork == <<"~", "/", "work", "/", "**">>
PathAll == <<"/", "**">>
RemoteCorp == <<"github.com", "/", "corp", "/", "*">>

\* The arguments of `gid add` tried by the model: <<id, name, email, gpg_key>>
AddArgs ==
    { <<IdWork, "Ann Work", EmailWork, Some("KEY1")>>,
      <<IdHome, "Ann", EmailHome, None>>,
      <<IdWork, "Bob", EmailOther, None>>,
      <<IdEmpty, "Ann", EmailHome, None>>,
      <<IdBad, "Ann", EmailHome, None>>,
      <<IdHome, "", EmailHome, None>>,
      <<IdHome, "Ann", EmailNoAt, None>>,
      <<IdHome, "Ann", EmailNoDot, None>> }

\* The arguments of `gid rule add` tried by the model
RuleAddArgs ==
    { <<"path", PathWork, IdWork, 10>>,
      <<"path", PathAll, IdHome, default_priority>>,
      <<"remote", RemoteCorp, IdWork, default_priority>>,
      <<"remote", RemoteCorp, IdGhost, 10>> }

\* commands/add.rs execute: [ok, identities]
AddExecute(ids, id, name, email, gpg_key) ==
    LET identity == IdentityNew(id, name, email, gpg_key)
        rejected == [ok |-> FALSE, identities |-> ids]
    IN  IF ~AllIdChars(id) THEN rejected
        ELSE IF IsSome(find_identity(ids, id)) THEN rejected
        ELSE IF name = "" THEN rejected
        ELSE IF ~ContainsChar(email, "@") \/ ~ContainsChar(email, ".") THEN rejected
        ELSE IF ~IdentityValidate(identity) THEN rejected
        ELSE add_identity(ids, identity)

\* commands/remove.rs execute: [ok, identities]
RemoveExecute(ids, id, confirm) ==
    IF ~IsSome(find_identity(ids, id)) THEN [ok |-> FALSE, identities |-> ids]
    ELSE IF ~confirm THEN [ok |-> TRUE, identities |-> ids]
    ELSE remove_identity(ids, id)

\* rule add storing the rule before it looks the identity up
Mutant_RuleAddExecute(ids, rs, kind, pattern, identity, priority) ==
    [ok |-> IsSome(find_identity(ids, identity)),
     rules |-> add_rule(rs, RuleNew(kind, pattern, identity, priority))]

\* commands/rule.rs add_rule: [ok, rules]
RuleAddExecute(ids, rs, kind, pattern, identity, priority) ==
    IF ~IsSome(find_identity(ids, identity)) THEN [ok |-> FALSE, rules |-> rs]
    ELSE [ok |-> TRUE, rules |-> add_rule(rs, RuleNew(kind, pattern, identity, priority))]

\* commands/rule.rs remove_rule: [ok, rules]
RuleRemoveExecute(rs, index, confirm) ==
    IF index >= Len(rs) THEN [ok |-> FALSE, rules |-> rs]
    ELSE IF ~confirm THEN [ok |-> TRUE, rules |-> rs]
    ELSE LET r == remove_rule(rs, index)
         IN  [ok |-> r.ok, rules |-> r.rules]

\* The merge loop replacing a stored identity by the imported one of its id
RECURSIVE Mutant_MergeIdentities(_, _)
Mutant_MergeIdentities(ids, imported) ==
    IF imported = <<>> THEN ids
    ELSE IF ~IsSome(find_identity(ids, imported[1].id))
         THEN Mutant_MergeIdentities(Append(ids, imported[1]), Tail(imported))
         ELSE Mutant_MergeIdentities(
                  [k \in 1..Len(ids) |->
                      IF ids[k].id = imported[1].id THEN imported[1] ELSE ids[k]],
                  Tail(imported))

\* The merge loop of import over the identities of the file
RECURSIVE MergeIdentities(_, _)
MergeIdentities(ids, imported) ==
    IF imported = <<>> THEN ids
    ELSE IF ~IsSome(find_identity(ids, imported[1].id))
         THEN MergeIdentities(Append(ids, imported[1]), Tail(imported))
         ELSE MergeIdentities(ids, Tail(imported))

\* The merge loop of import over the rules of the file
RECURSIVE MergeRules(_, _)
MergeRules(rs, imported) ==
    IF imported = <<>> THEN rs
    ELSE MergeRules(add_rule(rs, imported[1]), Tail(imported))

\* commands/import.rs execute on a file that parsed: the stored configuration
\* afterwards.  choice is the answer to "Select [1/2/3]", confirm the answer
\* to the question the replace mode asks
ImportExecute(cfg, file, choice, confirm) ==
    IF file.identities = <<>> /\ file.rules = <<>> THEN cfg
    ELSE IF cfg.identities # <<>> \/ cfg.rules # <<>>
         THEN IF choice = "1"
              THEN [identities |-> MergeIdentities(cfg.identities, file.identities),
                    rules |-> MergeRules(cfg.rules, file.rules),
                    settings |-> cfg.settings]
              ELSE IF choice = "2" /\ confirm THEN file
              ELSE cfg
    ELSE file

\* The branch commands/import.rs execute takes
ImportMode(cfg, file, choice, confirm) ==
    IF file.identities = <<>> /\ file.rules = <<>> THEN "empty"
    ELSE IF cfg.identities # <<>> \/ cfg.rules # <<>>
         THEN IF choice = "1" THEN "merge"
              ELSE IF choice = "2" /\ confirm THEN "replace"
              ELSE "cancel"
    ELSE "fresh"

\* The identities an imported file may list: the file is not validated
ImportIdentityPool == {IdentityWorkOther, IdentityHome}

\* The rule lists an imported file may carry, sorted or not
ImportRuleLists ==
    { <<>>,
      <<RuleNew("remote", RemoteCorp, IdWork, default_priority)>>,
      <<RuleNew("path", PathAll, IdHome, default_priority),
        [RuleNew("path", PathWork, IdWork, 10) EXCEPT !.enabled = FALSE]>> }

ImportFiles ==
    { [identities |-> i, rules |-> r,
       settings |-> [DefaultSettings EXCEPT !.strict_mode = TRUE]] :
         i \in SeqsUpTo(ImportIdentityPool, MaxImport), r \in ImportRuleLists }

StoreConfig == [identities |-> identities, rules |-> rules, settings |-> settings]

Outcome(ok) == IF ok THEN "ok" ELSE "err"

\* What the commands on the store leave alone
StoreFrame == UNCHANGED <<matchVars, resolveVars, fixVars, auditVars, transferVars, switchVars>>

StoreInit ==
    /\ identities = <<>>
    /\ rules = <<>>
    /\ settings = DefaultSettings
    /\ store_result = "none"

\* gid add
AddIdentity ==
    \E a \in AddArgs :
        LET r == AddExecute(identities, a[1], a[2], a[3], a[4])
        IN  /\ Len(identities) < MaxIdentities
            /\ identities' = r.identities
            /\ store_result' = Outcome(r.ok)
            /\ UNCHANGED <<rules, settings>>
            /\ StoreFrame

\* gid remove <id>
RemoveIdentity ==
    \E id \in {IdWork, IdHome, IdGhost}, confirm \in BOOLEAN :
        LET r == RemoveExecute(identities, id, confirm)
        IN  /\ identities' = r.identities
            /\ store_result' = Outcome(r.ok)
            /\ UNCHANGED <<rules, settings>>
            /\ StoreFrame

\* gid rule add
RuleAdd ==
    \E a \in RuleAddArgs :
        LET r == RuleAddExecute(identities, rules, a[1], a[2], a[3], a[4])
        IN  /\ Len(rules) < MaxStoreRules
            /\ rules' = r.rules
            /\ store_result' = Outcome(r.ok)
            /\ UNCHANGED <<identities, settings>>
            /\ StoreFrame

\* gid rule remove <index>
RuleRemove ==
    \E index \in 0..MaxStoreRules, confirm \in BOOLEAN :
        LET r == RuleRemoveExecute(rules, index, confirm)
        IN  /\ rules' = r.rules
            /\ store_result' = Outcome(r.ok)
            /\ UNCHANGED <<identities, settings>>
            /\ StoreFrame

\* gid import <file> with the answers given to its questions
ImportCmd(file, choice, confirm) ==
    LET after == ImportExecute(StoreConfig, file, choice, confirm)
    IN  /\ Len(after.identities) <= MaxIdentities
        /\ Len(after.rules) <= MaxStoreRules
        /\ identities' = after.identities
        /\ rules' = after.rules
        /\ settings' = after.settings
        /\ store_result' = "ok"
        /\ import_mode' = ImportMode(StoreConfig, file, choice, confirm)
        /\ UNCHANGED <<export_file, export_source>>
        /\ UNCHANGED <<matchVars, resolveVars, fixVars, auditVars, switchVars>>

Import ==
    \E file \in ImportFiles, choice \in {"1", "2", "3"}, confirm \in BOOLEAN :
        ImportCmd(file, choice, confirm)

StoreNext ==
    \/ AddIdentity
    \/ RemoveIdentity
    \/ RuleAdd
    \/ RuleRemove
    \/ Import

----------------------------------------------------------------------------
(* Export and import of the configuration as a TOML document               *)
(* (commands/export.rs, commands/import.rs).  A table of the document is a *)
(* function from the keys it holds to their values.                        *)

\* The entry of an Option field: skip_serializing_if = "Option::is_none"
TomlOptional(key, value) == IF IsSome(value) THEN key :> Unwrap(value) ELSE <<>>

\* The value of a key with #[serde(default)] on an Option field
TomlGetOption(table, key) == IF key \in DOMAIN table THEN Some(table[key]) ELSE None

\* The value of a key with a serde default
TomlGetOr(table, key, default) == IF key \in DOMAIN table THEN table[key] ELSE default

\* Serialize for Identity
IdentityToToml(identity) ==
    ("id" :> identity.id) @@ ("name" :> identity.name) @@ ("email" :> identity.email)
    @@ TomlOptional("description", identity.description)
    @@ TomlOptional("ssh_key", identity.ssh_key)
    @@ TomlOptional("gpg_key", identity.gpg_key)
    @@ ("gpg_sign" :> identity.gpg_sign)

\* Deserialize for Identity; the table holds the three required keys
IdentityFromToml(table) ==
    [id |-> table["id"], name |-> table["name"], email |-> table["email"],
     description |-> TomlGetOption(table, "description"),
     ssh_key |-> TomlGetOption(table, "ssh_key"),
     gpg_key |-> TomlGetOption(table, "gpg_key"),
     gpg_sign |-> TomlGetOr(table, "gpg_sign", FALSE)]

\* Serialize for Rule without the key "enabled"
Mutant_RuleToToml(rule) ==
    ("type" :> rule.kind) @@ ("pattern" :> rule.pattern)
    @@ ("identity" :> rule.identity) @@ ("priority" :> rule.priority)
    @@ TomlOptional("description", rule.description)

\* Serialize for Rule: the flattened, internally tagged rule_type first
RuleToToml(rule) ==
    ("type" :> rule.kind) @@ ("pattern" :> rule.pattern)
    @@ ("identity" :> rule.identity) @@ ("priority" :> rule.priority)
    @@ TomlOptional("description", rule.description)
    @@ ("enabled" :> rule.enabled)

\* Deserialize for Rule
RuleFromToml(table) ==
    [kind |-> table["type"], pattern |-> table["pattern"],
     identity |-> table["identity"],
     priority |-> TomlGetOr(table, "priority", default_priority),
     description |-> TomlGetOption(table, "description"),
     enabled |-> TomlGetOr(table, "enabled", TRUE)]

\* Serialize for Settings
SettingsToToml(st) ==
    ("verbose" :> st.verbose) @@ ("color" :> st.color)
    @@ ("auto_switch" :> st.auto_switch)
    @@ ("pre_commit_check" :> st.pre_commit_check)
    @@ ("strict_mode" :> st.strict_mode)
    @@ TomlOptional("editor", st.editor)
    @@ TomlOptional("hooks_path", st.hooks_path)

\* Deserialize for Settings
SettingsFromToml(table) ==
    [verbose |-> TomlGetOr(table, "verbose", TRUE),
     color |-> TomlGetOr(table, "color", TRUE),
     auto_switch |-> TomlGetOr(table, "auto_switch", FALSE),
     pre_commit_check |-> TomlGetOr(table, "pre_commit_check", TRUE),
     strict_mode |-> TomlGetOr(table, "strict_mode", FALSE),
     editor |-> TomlGetOption(table, "editor"),
     hooks_path |-> TomlGetOption(table, "hooks_path")]

\* toml::to_string_pretty(&config)
toml_to_string_pretty(cfg) ==
    [identities |-> [i \in 1..Len(cfg.identities) |-> IdentityToToml(cfg.identities[i])],
     rules |-> [i \in 1..Len(cfg.rules) |-> RuleToToml(cfg.rules[i])],
     settings |-> SettingsToToml(cfg.settings)]

\* toml::from_str::<Config> on a document whose tables hold the required keys
ConfigFromToml(doc) ==
    [identities |-> [i \in 1..Len(doc.identities) |-> IdentityFromToml(doc.identities[i])],
     rules |-> [i \in 1..Len(doc.rules) |-> RuleFromToml(doc.rules[i])],
     settings |-> SettingsFromToml(doc.settings)]

\* commands/export.rs execute: the file afterwards; nothing is written for a
\* store with no identities and no rules
ExportExecute(cfg, file) ==
    IF cfg.identities = <<>> /\ cfg.rules = <<>> THEN file
    ELSE Some(toml_to_string_pretty(cfg))

TransferIdle ==
    /\ export_file = None
    /\ export_source = None
    /\ import_mode = "none"

\* gid export <file>
Export ==
    /\ export_file' = ExportExecute(StoreConfig, export_file)
    /\ export_source' = IF identities = <<>> /\ rules = <<>>
                        THEN export_source ELSE Some(StoreConfig)
    /\ UNCHANGED <<import_mode, storeVars>>
    /\ UNCHANGED <<matchVars, resolveVars, fixVars, auditVars, switchVars>>

\* gid import <file> with the file gid export wrote
ImportExported ==
    /\ IsSome(export_file)
    /\ \E choice \in {"1", "2", "3"}, confirm \in BOOLEAN :
           LET file == ConfigFromToml(Unwrap(export_file))
               after == ImportExecute(StoreConfig, file, choice, confirm)
           IN  /\ Len(after.identities) <= MaxIdentities
               /\ Len(after.rules) <= MaxStoreRules
               /\ identities' = after.identities
               /\ rules' = after.rules
               /\ settings' = after.settings
               /\ store_result' = "ok"
               /\ import_mode' = ImportMode(StoreConfig, file, choice, confirm)
    /\ UNCHANGED <<export_file, export_source>>
    /\ UNCHANGED <<matchVars, resolveVars, fixVars, auditVars, switchVars>>

\* The configurations the export starts from: optional fields present and
\* absent, a disabled rule, rules out of priority order
TransferStores ==
    { [identities |-> <<[IdentityWork EXCEPT !.description = Some("job")],
                        IdentityHome>>,
       rules |-> <<RuleNew("path", PathWork, IdWork, 10),
                   [RuleNew("remote", RemoteCorp, IdHome, default_priority)
                       EXCEPT !.enabled = FALSE, !.description = Some("corp")]>>,
       settings |-> DefaultSettings],
      [identities |-> <<[IdentityWork EXCEPT !.gpg_sign = FALSE]>>,
       rules |-> <<>>,
       settings |-> [DefaultSettings EXCEPT !.editor = Some("vi")]],
      [identities |-> <<>>,
       rules |-> <<RuleNew("path", PathAll, IdHome, default_priority),
                   RuleNew("path", PathWork, IdWork, 10)>>,
       settings |-> [DefaultSettings EXCEPT !.strict_mode = TRUE]],
      [identities |-> <<>>, rules |-> <<>>, settings |-> DefaultSettings] }

----------------------------------------------------------------------------
(* The rule matcher applied to a configuration and a context *)

MaxMatchRules == 2

Home == <<"/", "home", "/", "u">>
DirWork == <<"/", "home", "/", "u", "/", "work", "/", "p">>
DirOss == <<"/", "home", "/", "u", "/", "oss">>
DirSrv == <<"/", "srv", "/", "x">>
PathOss == <<"/", "home", "/", "u", "/", "oss">>
PathStar == <<"/", "srv", "/", "*">>
RemoteLab == <<"gitlab.com">>
RemoteBroken == <<"[", "corp">>

UrlSshCorp == <<"git@", "github.com", ":", "corp", "/", "r", ".git">>
UrlHttpsCorp == <<"https://", "github.com", "/", "corp", "/", "r", ".git">>
UrlLab == <<"https://", "gitlab.com", "/", "me", "/", "r">>

\* The rules a configuration file may hold: any kind, priority and enabled flag
MatchRulePool ==
    { RuleNew("path", PathWork, IdWork, 10),
      [RuleNew("path", PathWork, IdHome, 10) EXCEPT !.enabled = FALSE],
      RuleNew("path", PathAll, IdHome, default_priority),
      RuleNew("path", PathOss, IdHome, 50),
      RuleNew("path", PathStar, IdGhost, 50),
      RuleNew("remote", RemoteCorp, IdWork, default_priority),
      RuleNew("remote", RemoteLab, IdHome, 10),
      RuleNew("remote", RemoteBroken, IdWork, 10) }

MatchPaths == {None, Some(DirWork), Some(DirOss), Some(DirSrv)}
MatchRemotes == {None, Some(UrlSshCorp), Some(UrlHttpsCorp), Some(UrlLab)}

MatchInit ==
    /\ home_dir \in {None, Some(Home)}
    /\ m_context \in {MatchContext(p, u) : p \in MatchPaths, u \in MatchRemotes}
    /\ m_first = None
    /\ m_all = None

MatchIdle ==
    /\ home_dir = Some(Home)
    /\ m_context = MatchContext(None, None)
    /\ m_first = None
    /\ m_all = None

\* What a rule test leaves alone
MatchFrame == UNCHANGED <<storeVars, resolveVars, fixVars, auditVars, transferVars, switchVars>>

\* engine.match_context(&context) over the stored rules
MatchFirst ==
    /\ m_first = None
    /\ m_first' = Some(match_index(rules, m_context, home_dir))
    /\ UNCHANGED <<home_dir, m_context, m_all>>
    /\ MatchFrame

\* engine.match_all(&context) over the stored rules
MatchAll ==
    /\ m_all = None
    /\ m_all' = Some(match_all(rules, m_context, home_dir))
    /\ UNCHANGED <<home_dir, m_context, m_first>>
    /\ MatchFrame

----------------------------------------------------------------------------
(* The project marker file .gid (config/project.rs).  Its content is a      *)
(* sequence of characters; the key word of the structured form is the one  *)
(* element "identity".                                                     *)

IsWhitespace(c) == c \in {" ", "\n"}

RECURSIVE TrimLeft(_)
TrimLeft(s) == IF s # <<>> /\ IsWhitespace(s[1]) THEN TrimLeft(Tail(s)) ELSE s

RECURSIVE TrimRight(_)
TrimRight(s) ==
    IF s # <<>> /\ IsWhitespace(s[Len(s)])
    THEN TrimRight(SubSeq(s, 1, Len(s) - 1)) ELSE s

\* str::trim
Trim(s) == TrimRight(TrimLeft(s))

\* The text before the first occurrence of c (all of it when c does not occur)
RECURSIVE BeforeFirst(_, _)
BeforeFirst(s, c) ==
    IF s = <<>> \/ s[1] = c THEN <<>> ELSE <<s[1]>> \o BeforeFirst(Tail(s), c)

\* The text after the first occurrence of c
AfterFirst(s, c) == Drop(s, Len(BeforeFirst(s, c)) + 1)

\* str::lines().next().unwrap_or("")
FirstLine(s) == BeforeFirst(s, "\n")

ParseNone == [tag |-> "none", identity |-> <<>>, rules |-> <<>>]
ParseErr == [tag |-> "err", identity |-> <<>>, rules |-> <<>>]
ParseSome(id, rs) == [tag |-> "some", identity |-> id, rules |-> rs]

\* toml::from_str::<ProjectConfig>, for the one structured form of the model:
\* identity = "<id>".  Any other text that reaches it is a parse error.  The
\* quoted id is taken as it is, it is not validated.
toml_from_str(text) ==
    LET key == Trim(BeforeFirst(text, "="))
        value == Trim(AfterFirst(text, "="))
        inner == SubSeq(value, 2, Len(value) - 1)
    IN  IF /\ ContainsChar(text, "=")
           /\ key = <<"identity">>
           /\ Len(value) >= 2
           /\ value[1] = "\"" /\ value[Len(value)] = "\""
           /\ \A i \in 1..Len(inner) : inner[i] \notin {"\"", "\n"}
        THEN ParseSome(inner, <<>>)
        ELSE ParseErr

\* ProjectConfig::parse falling back to the bare form when the structured
\* parse fails
Mutant_ProjectConfigParse(content) ==
    LET trimmed == Trim(content)
        identity == Trim(FirstLine(trimmed))
        structured == toml_from_str(trimmed)
    IN  IF trimmed = <<>> THEN ParseNone
        ELSE IF structured.tag = "some" THEN structured
        ELSE IF identity = <<>> THEN ParseNone
        ELSE IF ~AllIdChars(identity) THEN ParseErr
        ELSE ParseSome(identity, <<>>)

\* ProjectConfig::parse
ProjectConfigParse(content) ==
    LET trimmed == Trim(content)
        identity == Trim(FirstLine(trimmed))
    IN  IF trimmed = <<>> THEN ParseNone
        ELSE IF ContainsChar(trimmed, "=") \/ ContainsChar(trimmed, "[")
             THEN toml_from_str(trimmed)
        ELSE IF identity = <<>> THEN ParseNone
        ELSE IF ~AllIdChars(identity) THEN ParseErr
        ELSE ParseSome(identity, <<>>)

\* ProjectConfig::load_from_dir; file is None when the directory has no .gid
load_from_dir(file) ==
    IF ~IsSome(file) THEN ParseNone ELSE ProjectConfigParse(Unwrap(file))

----------------------------------------------------------------------------
(* The git configuration (git/mod.rs) and the switch command *)

\* One scope of the git configuration: the four keys gid reads and writes
EmptyGitConfig ==
    [name |-> None, email |-> None, signingkey |-> None, gpgsign |-> None]

\* GitConfigManager::get_effective_user_name
get_effective_user_name(local, global) ==
    IF IsSome(local.name) THEN local.name ELSE global.name

\* get_effective_user_email deciding by the presence of the local name
Mutant_get_effective_user_email(local, global) ==
    IF IsSome(local.name) THEN local.email ELSE global.email

\* GitConfigManager::get_effective_user_email
get_effective_user_email(local, global) ==
    IF IsSome(local.email) THEN local.email ELSE global.email

\* The writes of switch::execute with the e-mail written only when the name
\* was already the identity's
Mutant_SwitchWrites(cfg, identity) ==
    IF cfg.name = Some(identity.name)
    THEN [cfg EXCEPT !.email = Some(identity.email)]
    ELSE [cfg EXCEPT !.name = Some(identity.name)]

\* The writes of a switch that unsets the signing keys of the scope for an
\* identity without a gpg key
Mutant_SwitchWritesClearing(cfg, identity) ==
    LET named == [cfg EXCEPT !.name = Some(identity.name),
                             !.email = Some(identity.email)]
    IN  IF IsSome(identity.gpg_key)
        THEN [named EXCEPT !.signingkey = identity.gpg_key,
                           !.gpgsign = Some(identity.gpg_sign)]
        ELSE [named EXCEPT !.signingkey = None, !.gpgsign = None]

\* The writes of switch::execute to one scope: set_user_name, set_user_email
\* and, for an identity with a gpg key, set_signing_key and set_gpg_sign
SwitchWrites(cfg, identity) ==
    LET named == [cfg EXCEPT !.name = Some(identity.name),
                             !.email = Some(identity.email)]
    IN  IF IsSome(identity.gpg_key)
        THEN [named EXCEPT !.signingkey = identity.gpg_key,
                           !.gpgsign = Some(identity.gpg_sign)]
        ELSE named

\* commands/switch.rs execute: [ok, local, global]
SwitchExecute(ids, identity_id, global_flag, inside, local, global) ==
    LET found == find_identity(ids, identity_id)
        failed == [ok |-> FALSE, local |-> local, global |-> global]
    IN  IF ~IsSome(found) THEN failed
        ELSE IF ~global_flag /\ ~inside THEN failed
        ELSE IF global_flag
             THEN [ok |-> TRUE, local |-> local,
                   global |-> SwitchWrites(global, Unwrap(found))]
        ELSE [ok |-> TRUE, local |-> SwitchWrites(local, Unwrap(found)),
              global |-> global]

----------------------------------------------------------------------------
(* Identity resolution: the auto command and the audit's expected identity *)

\* auto returning the error of a .gid file that does not parse
Mutant_AutoExecute(ids, rs, file, dir, origin, home, inside, local, global) ==
    LET stay(ok, consulted) ==
            [ok |-> ok, via |-> "none", identity |-> None,
             rules_consulted |-> consulted, local |-> local, global |-> global]
        switch(via, id, consulted) ==
            LET sw == SwitchExecute(ids, id, FALSE, inside, local, global)
            IN  [ok |-> sw.ok, via |-> via, identity |-> Some(id),
                 rules_consulted |-> consulted, local |-> sw.local,
                 global |-> sw.global]
        project_config == load_from_dir(file)
        matched_rule == match_context(rs, MatchContext(Some(dir), origin), home)
    IN  IF ~inside THEN stay(FALSE, FALSE)
        ELSE IF project_config.tag = "err" THEN stay(FALSE, FALSE)
        ELSE IF /\ project_config.tag = "some"
                /\ IsSome(find_identity(ids, project_config.identity))
             THEN switch("project", project_config.identity, FALSE)
        ELSE IF rs = <<>> THEN stay(TRUE, TRUE)
        ELSE IF IsSome(matched_rule)
             THEN switch("rule", Unwrap(matched_rule).identity, TRUE)
        ELSE stay(TRUE, TRUE)

\* commands/auto.rs execute.  The result records what the command did:
\*   ok       whether it returned Ok
\*   via      "project", "rule" or "none": what chose the identity switched to
\*   identity the id handed to switch::execute, if any
\*   rules_consulted  whether control reached the rule matching of step 2
AutoExecute(ids, rs, file, dir, origin, home, inside, local, global) ==
    LET stay(ok, consulted) ==
            [ok |-> ok, via |-> "none", identity |-> None,
             rules_consulted |-> consulted, local |-> local, global |-> global]
        switch(via, id, consulted) ==
            LET sw == SwitchExecute(ids, id, FALSE, inside, local, global)
            IN  [ok |-> sw.ok, via |-> via, identity |-> Some(id),
                 rules_consulted |-> consulted, local |-> sw.local,
                 global |-> sw.global]
        project_config == load_from_dir(file)
        ctx == MatchContext(Some(dir), origin)
        matched_rule == match_context(rs, ctx, home)
    IN  IF ~inside THEN stay(FALSE, FALSE)
        ELSE IF /\ project_config.tag = "some"
                /\ IsSome(find_identity(ids, project_config.identity))
             THEN switch("project", project_config.identity, FALSE)
        ELSE IF rs = <<>> THEN stay(TRUE, TRUE)
        ELSE IF IsSome(matched_rule)
             THEN switch("rule", Unwrap(matched_rule).identity, TRUE)
        ELSE stay(TRUE, TRUE)

\* get_expected_identity with the rules asked before the .gid file
Mutant_get_expected_identity(rs, file, path, origin, home) ==
    LET project_config == load_from_dir(file)
        matched_rule == match_context(rs, MatchContext(Some(path), origin), home)
    IN  IF IsSome(matched_rule) THEN Some(Unwrap(matched_rule).identity)
        ELSE IF project_config.tag = "some" THEN Some(project_config.identity)
        ELSE None

\* Auditor::get_expected_identity
get_expected_identity(rs, file, path, origin, home) ==
    LET project_config == load_from_dir(file)
        ctx == MatchContext(Some(path), origin)
        matched_rule == match_context(rs, ctx, home)
    IN  IF project_config.tag = "some" THEN Some(project_config.identity)
        ELSE IF IsSome(matched_rule) THEN Some(Unwrap(matched_rule).identity)
        ELSE None

GidWork == <<"w", "k", "\n">>
GidGhostPadded == <<" ", "g", " ", "\n">>
GidBlank == <<" ", "\n">>
GidBad == <<"w", " ", "k">>
GidToml == <<"identity", " ", "=", " ", "\"", "h", "\"", "\n">>
GidTomlBroken == <<"[", "h">>

GidTwoLines == <<"\n", "h", " ", "\n", "w", " ", "k">>
GidBareThenBroken == <<"w", "k", "\n", "[">>

GidFiles ==
    {None, Some(GidWork), Some(GidGhostPadded), Some(GidBlank), Some(GidBad),
     Some(GidToml), Some(GidTomlBroken), Some(GidTwoLines),
     Some(GidBareThenBroken)}

\* The stored rule lists of the resolution scenarios
ResolveRuleLists ==
    { <<>>,
      <<RuleNew("path", PathWork, IdWork, 10),
        RuleNew("path", PathAll, IdHome, default_priority)>>,
      <<RuleNew("remote", RemoteLab, IdHome, 10),
        RuleNew("remote", RemoteCorp, IdGhost, default_priority)>>,
      <<RuleNew("path", PathOss, IdHome, 50)>> }

ResolveIdentityLists == {<<IdentityWork, IdentityHome>>, <<IdentityHome>>}

GlobalGitConfig ==
    [name |-> Some("Default"), email |-> Some(EmailOther),
     signingkey |-> None, gpgsign |-> None]

ResolveInit ==
    /\ gid_file \in GidFiles
    /\ cwd \in {DirWork, DirOss}
    /\ origin_url \in {None, Some(UrlSshCorp), Some(UrlLab)}
    /\ in_repo \in BOOLEAN
    /\ git_local = EmptyGitConfig
    /\ git_global = GlobalGitConfig
    /\ auto_out = None
    /\ expected = None

ResolveIdle ==
    /\ gid_file = None
    /\ cwd = DirWork
    /\ origin_url = None
    /\ in_repo = TRUE
    /\ git_local = EmptyGitConfig
    /\ git_global = GlobalGitConfig
    /\ auto_out = None
    /\ expected = None

\* What auto and the audit's resolution leave alone
ResolveFrame == UNCHANGED <<storeVars, matchVars, fixVars, auditVars, transferVars, switchVars>>

\* gid auto
Auto ==
    LET out == AutoExecute(identities, rules, gid_file, cwd, origin_url,
                           home_dir, in_repo, git_local, git_global)
    IN  /\ auto_out' = Some([ok |-> out.ok, via |-> out.via,
                             identity |-> out.identity,
                             rules_consulted |-> out.rules_consulted])
        /\ git_local' = out.local
        /\ git_global' = out.global
        /\ UNCHANGED <<gid_file, cwd, origin_url, in_repo, expected>>
        /\ ResolveFrame

\* The expected-identity step of Auditor::audit_repo (audit/mod.rs line 84)
AuditExpected ==
    /\ in_repo
    /\ expected = None
    /\ expected' = Some(get_expected_identity(rules, gid_file, cwd, origin_url,
                                              home_dir))
    /\ UNCHANGED <<gid_file, cwd, origin_url, in_repo, git_local, git_global,
                   auto_out>>
    /\ ResolveFrame

----------------------------------------------------------------------------
(* gid switch and gid current on a repository's and the user's git config *)

\* The local configurations a repository may hold before the tool runs
LocalGitConfigs ==
    { EmptyGitConfig,
      [EmptyGitConfig EXCEPT !.name = Some("Local")],
      [EmptyGitConfig EXCEPT !.email = Some(EmailHome)],
      SwitchWrites(EmptyGitConfig, IdentityWork) }

\* The global configurations the user may hold
GlobalGitConfigs ==
    { EmptyGitConfig, GlobalGitConfig,
      [EmptyGitConfig EXCEPT !.name = Some("Default")] }

SwitchIdle ==
    /\ sw_last = None
    /\ effective = None

\* gid switch <identity_id> [--global]
SwitchCmd(identity_id, global_flag) ==
    LET sw == SwitchExecute(identities, identity_id, global_flag, in_repo,
                            git_local, git_global)
        repeated == /\ IsSome(sw_last)
                    /\ Unwrap(sw_last).identity_id = identity_id
                    /\ Unwrap(sw_last).global = global_flag
                    /\ Unwrap(sw_last).ok
    IN  /\ git_local' = sw.local
        /\ git_global' = sw.global
        /\ sw_last' = Some([identity_id |-> identity_id, global |-> global_flag,
                            ok |-> sw.ok,
                            times |-> IF sw.ok /\ repeated THEN 2
                                      ELSE IF sw.ok THEN 1 ELSE 0])
        /\ effective' = None
        /\ UNCHANGED <<gid_file, cwd, origin_url, in_repo, auto_out, expected>>
        /\ UNCHANGED <<storeVars, matchVars, fixVars, auditVars, transferVars>>

Switch ==
    \E identity_id \in {IdWork, IdHome, IdGhost}, global_flag \in BOOLEAN :
        SwitchCmd(identity_id, global_flag)

\* gid current: the effective name and e-mail it reads
Current ==
    /\ effective = None
    /\ effective' = Some([name |-> get_effective_user_name(git_local, git_global),
                          email |-> get_effective_user_email(git_local, git_global)])
    /\ UNCHANGED <<sw_last, resolveVars>>
    /\ UNCHANGED <<storeVars, matchVars, fixVars, auditVars, transferVars>>

----------------------------------------------------------------------------
(* The repository and the fix-commit command (commands/fix_commit.rs) *)

MaxObjects == 5

BranchNames == {"main", "dev"}

Sig(name, email, when) == [name |-> name, email |-> email, when |-> when]

\* A commit message: its bytes and whether they are valid UTF-8
Msg(bytes, utf8) == [bytes |-> bytes, utf8 |-> utf8]

Commit(author, committer, message, tree, parents) ==
    [author |-> author, committer |-> committer, message |-> message,
     tree |-> tree, parents |-> parents]

SigTest == Sig("Test User", EmailOther, "t0")
SigBot == Sig("Merge Bot", EmailHome, "t0")

CRoot == Commit(SigTest, SigTest, Msg("init", TRUE), "tree0", <<>>)
CSecond == Commit(SigTest, SigBot, Msg("wrong identity commit", TRUE), "tree1", <<1>>)
CSide == Commit(SigTest, SigTest, Msg("side", TRUE), "tree2", <<1>>)
CMerge == Commit(SigTest, SigBot, Msg("merge dev", TRUE), "tree3", <<2, 3>>)
CLatin == Commit(SigTest, SigTest, Msg("latin-1 bytes", FALSE), "tree4", <<1>>)

OnBranch(name) == [kind |-> "branch", name |-> name, oid |-> 0]
Detached(oid) == [kind |-> "detached", name |-> "", oid |-> oid]

\* The repositories the command is started in
Repos ==
    { [odb |-> <<CRoot>>, refs |-> [b \in BranchNames |-> IF b = "main" THEN 1 ELSE 0],
       head |-> OnBranch("main")],
      [odb |-> <<CRoot, CSecond>>, refs |-> [b \in BranchNames |-> IF b = "main" THEN 2 ELSE 1],
       head |-> OnBranch("main")],
      [odb |-> <<CRoot, CSecond>>, refs |-> [b \in BranchNames |-> IF b = "main" THEN 2 ELSE 1],
       head |-> Detached(2)],
      [odb |-> <<CRoot, CSecond, CSide, CMerge>>,
       refs |-> [b \in BranchNames |-> IF b = "main" THEN 4 ELSE 3],
       head |-> OnBranch("main")],
      [odb |-> <<CRoot, CLatin>>, refs |-> [b \in BranchNames |-> IF b = "main" THEN 2 ELSE 0],
       head |-> OnBranch("dev")],
      [odb |-> <<CRoot, CLatin>>, refs |-> [b \in BranchNames |-> IF b = "main" THEN 2 ELSE 1],
       head |-> OnBranch("main")] }

\* The commit HEAD resolves to, 0 for an unborn branch
HeadOid(h, r) == IF h.kind = "branch" THEN r[h.name] ELSE h.oid

\* has_uncommitted_changes that overlooks untracked files
Mutant_has_uncommitted_changes(st) == st \ {"untracked"} # {}

\* has_uncommitted_changes
has_uncommitted_changes(st) == st # {}

\* Commit::message(): None when the bytes are not valid UTF-8
CommitMessage(commit) ==
    IF commit.message.utf8 THEN Some(commit.message.bytes) ELSE None

\* commit.message().unwrap_or("")
MessageOrEmpty(commit) ==
    IF IsSome(CommitMessage(commit)) THEN Unwrap(CommitMessage(commit)) ELSE ""

\* The parents handed to repo.commit (fix_commit.rs lines 124-144)
NewCommitParents(commit) ==
    IF Len(commit.parents) > 0 THEN <<commit.parents[1]>> ELSE <<>>

\* The commit object fix_single_commit creates (lines 120-144)
NewCommit(commit, identity) ==
    Commit(Sig(identity.name, identity.email, "now"), commit.committer,
           Msg(MessageOrEmpty(commit), TRUE), commit.tree,
           NewCommitParents(commit))

\* UpdateHead that detaches HEAD whether or not it is on a branch
Mutant_UpdateHead(h, r, new_commit_oid) ==
    [head |-> Detached(new_commit_oid), refs |-> r]

\* The update of HEAD (lines 146-154): [head, refs]
UpdateHead(h, r, new_commit_oid) ==
    IF h.kind = "branch"
    THEN [head |-> h, refs |-> [r EXCEPT ![h.name] = new_commit_oid]]
    ELSE [head |-> Detached(new_commit_oid), refs |-> r]

\* The identity id fix-commit uses (execute, lines 33-47): the --identity
\* argument, else the id of the first identity with the effective e-mail
RECURSIVE FindByEmail(_, _, _)
FindByEmail(ids, email, i) ==
    IF i > Len(ids) THEN None
    ELSE IF ids[i].email = email THEN Some(ids[i].id)
    ELSE FindByEmail(ids, email, i + 1)

FixIdentityId(identity_id, ids, local, global) ==
    IF IsSome(identity_id) THEN identity_id
    ELSE LET current_email == get_effective_user_email(local, global)
         IN  IF ~IsSome(current_email) THEN None
             ELSE FindByEmail(ids, Unwrap(current_email), 1)

\* FixIsRange that takes a --range naming one revision for a single fix
Mutant_FixIsRange(range) == IsSome(range) /\ Unwrap(range) # "HEAD"

\* execute, lines 53-58: a --range argument selects the batch path
FixIsRange(range) == IsSome(range)

\* NeedsConfirm that never asks
Mutant_NeedsConfirm(yes) == FALSE

\* The prompts are asked unless --yes was given (lines 108 and 230)
NeedsConfirm(yes) == ~yes

\* The commits reachable from oid, oid included
RECURSIVE Ancestors(_, _)
Ancestors(objs, oid) ==
    {oid} \cup UNION {Ancestors(objs, objs[oid].parents[k]) :
                          k \in 1..Len(objs[oid].parents)}

\* repo.revparse for the range arguments of the model
Revparse(objs, h, r, range) ==
    LET tip == HeadOid(h, r)
        bad == [ok |-> FALSE, single |-> FALSE, from |-> 0, to |-> 0]
    IN  IF tip = 0 THEN bad
        ELSE IF range = "HEAD" THEN [ok |-> TRUE, single |-> TRUE, from |-> tip, to |-> 0]
        ELSE IF range = "HEAD..HEAD"
             THEN [ok |-> TRUE, single |-> FALSE, from |-> tip, to |-> tip]
        ELSE IF range = "HEAD~1..HEAD" /\ Len(objs[tip].parents) > 0
             THEN [ok |-> TRUE, single |-> FALSE,
                   from |-> objs[tip].parents[1], to |-> tip]
        ELSE bad

\* revwalk.push(to); revwalk.hide(from); revwalk.count()
RangeCount(objs, from, to) ==
    Cardinality(Ancestors(objs, to) \ Ancestors(objs, from))

FixArgs ==
    { [commit_ref |-> c, identity_id |-> i, range |-> g, yes |-> y] :
        c \in {"HEAD", "HEAD~1"},
        i \in {None, Some(IdWork), Some(IdGhost)},
        g \in {None, Some("HEAD~1..HEAD"), Some("HEAD..HEAD"), Some("HEAD"),
               Some("bogus")},
        y \in BOOLEAN }

NoArgs == [commit_ref |-> "HEAD", identity_id |-> None, range |-> None, yes |-> FALSE]

Snapshot == [odb |-> odb, refs |-> refs, head |-> head, statuses |-> statuses]

FixProcessIdle ==
    /\ f_pc = "idle"
    /\ f_args = NoArgs
    /\ f_identity = None
    /\ f_new = 0
    /\ f_result = "none"
    /\ f_answer = "none"

FixInit ==
    /\ \E repo \in Repos : odb = repo.odb /\ refs = repo.refs /\ head = repo.head
    /\ statuses \in {{}, {"modified"}, {"untracked"}}
    /\ FixProcessIdle
    /\ f_pre = Snapshot

FixIdle ==
    /\ odb = <<CRoot>>
    /\ refs = [b \in BranchNames |-> IF b = "main" THEN 1 ELSE 0]
    /\ head = OnBranch("main")
    /\ statuses = {}
    /\ FixProcessIdle
    /\ f_pre = Snapshot

repoVars == <<odb, refs, head, statuses>>

\* What fix-commit leaves alone
FixFrame == UNCHANGED <<storeVars, matchVars, resolveVars, auditVars, transferVars, switchVars>>

\* The command ends with the given result
FixEnds(result) ==
    /\ f_pc' = "done"
    /\ f_result' = result

\* execute up to the first prompt or mutation: the checks of execute
\* (lines 15-51), the dispatch, and the checks of fix_single_commit
\* (lines 70-81) or fix_commit_range (lines 188-212)
FixBegin ==
    \E args \in FixArgs :
        LET id == FixIdentityId(args.identity_id, identities, git_local, git_global)
            identity == IF IsSome(id) THEN find_identity(identities, Unwrap(id)) ELSE None
            revspec == Revparse(odb, head, refs, Unwrap(args.range))
        IN  /\ f_pc = "idle"
            /\ Len(odb) < MaxObjects
            /\ f_args' = args
            /\ f_pre' = Snapshot
            /\ f_new' = 0
            /\ f_answer' = "none"
            /\ UNCHANGED repoVars
            /\ FixFrame
            /\ IF ~in_repo \/ has_uncommitted_changes(statuses) \/ ~IsSome(identity)
               THEN FixEnds("err") /\ f_identity' = None
               ELSE /\ f_identity' = identity
                    /\ IF FixIsRange(args.range)
                       THEN IF ~revspec.ok \/ revspec.single THEN FixEnds("err")
                            ELSE IF RangeCount(odb, revspec.from, revspec.to) = 0
                                 THEN FixEnds("ok")
                            ELSE /\ f_pc' = IF NeedsConfirm(args.yes)
                                            THEN "confirm_range" ELSE "range_report"
                                 /\ f_result' = "none"
                       ELSE IF args.commit_ref # "HEAD" \/ HeadOid(head, refs) = 0
                            THEN FixEnds("err")
                            ELSE /\ f_pc' = IF NeedsConfirm(args.yes)
                                            THEN "confirm_single" ELSE "write"
                                 /\ f_result' = "none"

\* The answer to dialoguer::Confirm (lines 108-118 and 230-240); the prompt
\* itself can fail
FixConfirm ==
    \E answer \in {"yes", "no", "err"} :
        /\ f_pc \in {"confirm_single", "confirm_range"}
        /\ f_answer' = answer
        /\ IF answer = "err" THEN FixEnds("err")
           ELSE IF answer = "no" THEN FixEnds("ok")
           ELSE /\ f_pc' = IF f_pc = "confirm_single" THEN "write" ELSE "range_report"
                /\ f_result' = "none"
        /\ UNCHANGED <<repoVars, f_args, f_identity, f_new, f_pre>>
        /\ FixFrame

\* Signature::now and repo.commit(None, ..) (lines 120-144): the new object
\* is written, or one of the calls fails
FixWriteCommit ==
    /\ f_pc = "write"
    /\ \/ /\ odb' = Append(odb, NewCommit(odb[HeadOid(head, refs)], Unwrap(f_identity)))
          /\ f_new' = Len(odb) + 1
          /\ f_pc' = "update_head"
          /\ UNCHANGED f_result
       \/ /\ FixEnds("err")
          /\ UNCHANGED <<odb, f_new>>
    /\ UNCHANGED <<refs, head, statuses, f_args, f_identity, f_answer, f_pre>>
    /\ FixFrame

\* repo.head() and the reference update (lines 146-154), which can fail
FixUpdateHead ==
    /\ f_pc = "update_head"
    /\ \/ LET after == UpdateHead(head, refs, f_new)
          IN  /\ head' = after.head
              /\ refs' = after.refs
              /\ FixEnds("ok")
       \/ /\ FixEnds("err")
          /\ UNCHANGED <<head, refs>>
    /\ UNCHANGED <<odb, statuses, f_args, f_identity, f_new, f_answer, f_pre>>
    /\ FixFrame

\* The end of fix_commit_range (lines 242-257): the advice is printed
FixRangeReport ==
    /\ f_pc = "range_report"
    /\ FixEnds("ok")
    /\ UNCHANGED <<repoVars, f_args, f_identity, f_new, f_answer, f_pre>>
    /\ FixFrame

\* The process exits; the next command starts from the repository it left
FixExit ==
    /\ f_pc = "done"
    /\ f_pc' = "idle"
    /\ f_args' = NoArgs
    /\ f_identity' = None
    /\ f_new' = 0
    /\ f_result' = "none"
    /\ f_answer' = "none"
    /\ f_pre' = Snapshot
    /\ UNCHANGED repoVars
    /\ FixFrame

----------------------------------------------------------------------------
(* The audit of a repository's history (audit/mod.rs) *)

MaxCommits == 3

\* The number of commits audit_repo asks get_commits for
AuditMaxCount == 1000

\* CommitInfo; the id is the commit's position in the walk from HEAD
CommitInfo(id, author_name, author_email) ==
    [id |-> id, message |-> "msg", author_name |-> author_name,
     author_email |-> author_email]

\* get_commits leaving the walk one commit late (i > max_count)
Mutant_get_commits(history, max_count) ==
    IF Len(history) <= max_count + 1 THEN history
    ELSE SubSeq(history, 1, max_count + 1)

\* GitConfigManager::get_commits: at most max_count commits from HEAD
get_commits(history, max_count) ==
    IF Len(history) <= max_count THEN history ELSE SubSeq(history, 1, max_count)

\* The key built from the e-mail alone
Mutant_UsageKey(name, email) == <<" <">> \o email \o <<">">>

\* format!("{} <{}>", author_name, author_email); a name read from a commit
\* holds no "<", so the name is one token of the key
UsageKey(name, email) == <<name, " <">> \o email \o <<">">>

\* The first identity from index i on that satisfies the test of one of the
\* two loops of find_matching_identity
RECURSIVE FindMatchingFrom(_, _, _, _, _)
FindMatchingFrom(ids, name, email, with_name, i) ==
    IF i > Len(ids) THEN None
    ELSE IF ids[i].email = email /\ (~with_name \/ ids[i].name = name)
         THEN Some(ids[i].id)
    ELSE FindMatchingFrom(ids, name, email, with_name, i + 1)

\* find_matching_identity without its second loop, the match by e-mail only
Mutant_find_matching_identity(ids, name, email) ==
    LET exact == FindMatchingFrom(ids, name, email, TRUE, 1)
    IN  IF IsSome(exact) THEN [is_known |-> TRUE, identity_id |-> exact]
        ELSE [is_known |-> FALSE, identity_id |-> None]

\* find_matching_identity taking the first identity with the e-mail, whatever
\* its name
Mutant_find_matching_by_email(ids, name, email) ==
    LET by_email == FindMatchingFrom(ids, name, email, FALSE, 1)
    IN  IF IsSome(by_email) THEN [is_known |-> TRUE, identity_id |-> by_email]
        ELSE [is_known |-> FALSE, identity_id |-> None]

\* Auditor::find_matching_identity: [is_known, identity_id]
find_matching_identity(ids, name, email) ==
    LET exact == FindMatchingFrom(ids, name, email, TRUE, 1)
        by_email == FindMatchingFrom(ids, name, email, FALSE, 1)
    IN  IF IsSome(exact) THEN [is_known |-> TRUE, identity_id |-> exact]
        ELSE IF IsSome(by_email) THEN [is_known |-> TRUE, identity_id |-> by_email]
        ELSE [is_known |-> FALSE, identity_id |-> None]

AuditIssue(issue_type, commit) ==
    [issue_type |-> issue_type, commit_id |-> commit.id,
     message |-> commit.message, author_name |-> commit.author_name,
     author_email |-> commit.author_email]

\* One iteration of the loop over the commits: the usage entry of the
\* commit's key is created if absent and counted up, then the commit is
\* classified against it
AuditCommit(ids, expected_identity, acc, commit) ==
    LET key == UsageKey(commit.author_name, commit.author_email)
        found == find_matching_identity(ids, commit.author_name, commit.author_email)
        entered ==
            IF key \in DOMAIN acc.identities_used
            THEN acc.identities_used
            ELSE acc.identities_used @@
                 (key :> [name |-> commit.author_name,
                          email |-> commit.author_email,
                          commit_count |-> 0,
                          is_known |-> found.is_known,
                          identity_id |-> found.identity_id])
        used == [entered EXCEPT ![key].commit_count = @ + 1]
        usage == used[key]
        issues ==
            IF ~usage.is_known
            THEN Append(acc.issues, AuditIssue("UnknownIdentity", commit))
            ELSE IF IsSome(expected_identity) /\ usage.identity_id # expected_identity
                 THEN Append(acc.issues, AuditIssue("IdentityMismatch", commit))
            ELSE acc.issues
    IN  [identities_used |-> used, issues |-> issues]

\* The iterations of the loop for the commits lo..hi in that order: the
\* first half of the range, then the second half on what the first left.
\* The test on the length makes the first half be computed before the second
\* is entered, which keeps the evaluation shallow on long histories.
RECURSIVE AuditRange(_, _, _, _, _, _)
AuditRange(ids, expected_identity, cs, acc, lo, hi) ==
    IF lo > hi THEN acc
    ELSE IF lo = hi THEN AuditCommit(ids, expected_identity, acc, cs[lo])
    ELSE LET mid == (lo + hi) \div 2
             half == AuditRange(ids, expected_identity, cs, acc, lo, mid)
         IN  IF Len(half.issues) >= 0
             THEN AuditRange(ids, expected_identity, cs, half, mid + 1, hi)
             ELSE acc

\* The loop over the commits from commit i on
AuditLoop(ids, expected_identity, cs, acc, i) ==
    AuditRange(ids, expected_identity, cs, acc, i, Len(cs))

\* The keys of the usage entries classified as known
KnownKeys(used) == {k \in DOMAIN used : used[k].is_known}

\* The entries min_by_key(|u| u.commit_count) can return: it returns the first
\* minimal entry in the iteration order of the HashMap, which is arbitrary
MinUsageKeys(used) ==
    {k \in KnownKeys(used) :
        \A j \in KnownKeys(used) : used[k].commit_count <= used[j].commit_count}

\* The issues of the second loop: the commits of the least used known entry
MixedIssues(cs, min_usage) ==
    LET hit == SelectSeq(cs, LAMBDA c : /\ c.author_name = min_usage.name
                                        /\ c.author_email = min_usage.email)
    IN  [k \in 1..Len(hit) |-> AuditIssue("MixedIdentities", hit[k])]

\* Auditor::audit_repo on a repository; min_key is the entry min_by_key
\* returned, used only when more than one entry is known
audit_repo(ids, expected_identity, history, min_key) ==
    LET cs == get_commits(history, AuditMaxCount)
        acc == AuditLoop(ids, expected_identity, cs,
                         [identities_used |-> <<>>, issues |-> <<>>], 1)
        used == acc.identities_used
        issues == IF Cardinality(KnownKeys(used)) > 1
                  THEN acc.issues \o MixedIssues(cs, used[min_key])
                  ELSE acc.issues
    IN  [total_commits |-> Len(cs), issues |-> issues, identities_used |-> used]

\* The (name, email) pairs the commits of the audited histories carry
AuthorWork == <<"Ann Work", EmailWork>>
AuthorWorkAlias == <<"A. Work", EmailWork>>
AuthorHome == <<"Ann", EmailHome>>
AuthorWorkBob == <<"Bob", EmailWork>>
AuthorEve == <<"Eve", EmailOther>>

AuthorPool == {AuthorWork, AuthorWorkAlias, AuthorWorkBob, AuthorHome, AuthorEve}

\* The history whose k-th commit from HEAD was written by authors[k]
History(authors) ==
    [k \in 1..Len(authors) |-> CommitInfo(k, authors[k][1], authors[k][2])]

\* a second identity with the e-mail of IdentityWork, under another name
IdentityWorkAlias == IdentityNew(IdGhost, "A. Work", EmailWork, None)

AuditIdentityLists ==
    {<<IdentityWork, IdentityHome>>, <<IdentityWork, IdentityWorkAlias>>,
     <<IdentityHome>>, <<>>}

AuditRuleLists == {<<>>, <<RuleNew("path", PathAll, IdHome, default_priority)>>}

AuditGidFiles == {None, Some(GidWork), Some(GidToml), Some(GidGhostPadded)}

AuditInit ==
    /\ commits \in {History(a) : a \in SeqsUpTo(AuthorPool, MaxCommits)}
    /\ audit_result = None

\* Histories around the cap of the walk: n commits by one author, but for
\* the commit at position odd_at from HEAD
LongAuthors(n, odd_at, odd) ==
    [k \in 1..n |-> IF k = odd_at THEN odd ELSE AuthorHome]

AuditLongHistories ==
    {History(LongAuthors(n, odd_at, odd)) :
        n \in (AuditMaxCount - 1)..(AuditMaxCount + 2),
        odd_at \in {1, AuditMaxCount, AuditMaxCount + 1},
        odd \in {AuthorWork, AuthorEve}}

AuditLongInit ==
    /\ commits \in AuditLongHistories
    /\ audit_result = None

AuditIdle ==
    /\ commits = <<>>
    /\ audit_result = None

\* What an audit leaves alone
AuditFrame == UNCHANGED <<storeVars, matchVars, fixVars, transferVars, switchVars>>

\* gid audit on one repository: Auditor::audit_repo
AuditRepo ==
    /\ audit_result = None
    /\ LET expected_identity ==
               get_expected_identity(rules, gid_file, cwd, origin_url, home_dir)
           first_loop ==
               AuditLoop(identities, expected_identity,
                         get_commits(commits, AuditMaxCount),
                         [identities_used |-> <<>>, issues |-> <<>>], 1)
           candidates == MinUsageKeys(first_loop.identities_used)
       IN  IF ~in_repo
           THEN /\ audit_result' = Some([ok |-> FALSE])
                /\ UNCHANGED expected
           ELSE /\ expected' = Some(expected_identity)
                /\ \E min_key \in candidates \cup {<<>>} :
                       /\ (min_key = <<>>) <=> (candidates = {})
                       /\ audit_result' =
                              Some([ok |-> TRUE] @@
                                   audit_repo(identities, expected_identity,
                                              commits, min_key))
    /\ UNCHANGED <<commits, gid_file, cwd, origin_url, in_repo, git_local,
                   git_global, auto_out>>
    /\ AuditFrame

\* A new audit of the same repository
AuditReset ==
    /\ audit_result # None
    /\ audit_result' = None
    /\ expected' = None
    /\ UNCHANGED <<commits, gid_file, cwd, origin_url, in_repo, git_local,
                   git_global, auto_out>>
    /\ AuditFrame

----------------------------------------------------------------------------
(* Specifications.  Each one runs the commands of one part of the tool and *)
(* holds the state of the other parts fixed.                               *)

\* The store commands, from an empty store
InitStore == StoreInit /\ MatchIdle /\ ResolveIdle /\ FixIdle /\ AuditIdle /\ TransferIdle /\ SwitchIdle

SpecStore == InitStore /\ [][StoreNext]_vars

\* The store under the four commands gid add, gid remove, gid rule add and
\* gid rule remove only
StoreCliNext ==
    \/ AddIdentity
    \/ RemoveIdentity
    \/ RuleAdd
    \/ RuleRemove

SpecStoreCli == InitStore /\ [][StoreCliNext]_vars

\* The configurations a configuration file can hold: it is loaded as written
MatchStoreInit ==
    /\ identities = <<IdentityWork, IdentityHome>>
    /\ rules \in SeqsUpTo(MatchRulePool, MaxMatchRules)
    /\ settings = DefaultSettings
    /\ store_result = "none"

MatchNext ==
    \/ MatchFirst
    \/ MatchAll

\* The rule matcher on any stored rule list and any context
InitMatch == MatchStoreInit /\ MatchInit /\ ResolveIdle /\ FixIdle /\ AuditIdle /\ TransferIdle /\ SwitchIdle

SpecMatch == InitMatch /\ [][MatchNext]_vars

ResolveStoreInit ==
    /\ identities \in ResolveIdentityLists
    /\ rules \in ResolveRuleLists
    /\ settings = DefaultSettings
    /\ store_result = "none"

ResolveNext ==
    \/ Auto
    \/ AuditExpected

\* auto and the audit's expected identity in any directory
InitResolve == ResolveStoreInit /\ MatchIdle /\ ResolveInit /\ FixIdle /\ AuditIdle /\ TransferIdle /\ SwitchIdle

SpecResolve == InitResolve /\ [][ResolveNext]_vars

FixStoreInit ==
    /\ identities = <<IdentityWork, IdentityHome>>
    /\ rules = <<>>
    /\ settings = DefaultSettings
    /\ store_result = "none"

\* The git configuration fix-commit reads the current e-mail from
FixResolveInit ==
    /\ gid_file = None
    /\ cwd = DirWork
    /\ origin_url = None
    /\ in_repo = TRUE
    /\ git_local \in {EmptyGitConfig, SwitchWrites(EmptyGitConfig, IdentityHome)}
    /\ git_global = GlobalGitConfig
    /\ auto_out = None
    /\ expected = None

FixNext ==
    \/ FixBegin
    \/ FixConfirm
    \/ FixWriteCommit
    \/ FixUpdateHead
    \/ FixRangeReport
    \/ FixExit

\* fix-commit, run any number of times in a repository
InitFix == FixStoreInit /\ MatchIdle /\ FixResolveInit /\ FixInit /\ AuditIdle /\ TransferIdle /\ SwitchIdle

SpecFix == InitFix /\ [][FixNext]_vars

AuditStoreInit ==
    /\ identities \in AuditIdentityLists
    /\ rules \in AuditRuleLists
    /\ settings = DefaultSettings
    /\ store_result = "none"

\* The directory the audit runs in
AuditResolveInit ==
    /\ gid_file \in AuditGidFiles
    /\ cwd = DirWork
    /\ origin_url = None
    /\ in_repo \in BOOLEAN
    /\ git_local = EmptyGitConfig
    /\ git_global = GlobalGitConfig
    /\ auto_out = None
    /\ expected = None

AuditNext ==
    \/ AuditRepo
    \/ AuditReset

\* the audit of any history under any configuration
InitAudit == AuditStoreInit /\ MatchIdle /\ AuditResolveInit /\ FixIdle /\ AuditInit /\ TransferIdle /\ SwitchIdle

SpecAudit == InitAudit /\ [][AuditNext]_vars

\* The directory of the audits of long histories
AuditLongResolveInit ==
    /\ gid_file \in {None, Some(GidWork)}
    /\ cwd = DirWork
    /\ origin_url = None
    /\ in_repo = TRUE
    /\ git_local = EmptyGitConfig
    /\ git_global = GlobalGitConfig
    /\ auto_out = None
    /\ expected = None

\* the audit of histories that reach the cap of the walk
InitAuditLong == AuditStoreInit /\ MatchIdle /\ AuditLongResolveInit /\ FixIdle /\ AuditLongInit /\ TransferIdle /\ SwitchIdle

SpecAuditLong == InitAuditLong /\ [][AuditNext]_vars

\* The stores rule removal is tried on: two identities and three rules,
\* sorted as Config::add_rule leaves them
RuleStoreInit ==
    /\ identities = <<IdentityWork, IdentityHome>>
    /\ rules \in {SortByPriority(<<RuleNew(a[1], a[2], a[3], a[4]),
                                    RuleNew(b[1], b[2], b[3], b[4]),
                                    RuleNew(c[1], c[2], c[3], c[4])>>) :
                      a \in RuleAddArgs, b \in RuleAddArgs, c \in RuleAddArgs}
    /\ settings = DefaultSettings
    /\ store_result = "none"

\* the store commands on a store that holds three rules
InitRules == RuleStoreInit /\ MatchIdle /\ ResolveIdle /\ FixIdle /\ AuditIdle /\ TransferIdle /\ SwitchIdle

SpecRules == InitRules /\ [][StoreCliNext]_vars

\* The stores import is tried on: an identity with a rule, two identities,
\* and rules out of priority order that name no stored identity
MergeStores ==
    { [identities |-> <<IdentityWork>>,
       rules |-> <<RuleNew("remote", RemoteCorp, IdWork, default_priority)>>,
       settings |-> DefaultSettings],
      [identities |-> <<IdentityHome, IdentityWork>>,
       rules |-> <<>>,
       settings |-> [DefaultSettings EXCEPT !.editor = Some("vi")]],
      [identities |-> <<>>,
       rules |-> <<RuleNew("path", PathAll, IdHome, default_priority),
                   RuleNew("path", PathWork, IdWork, 10)>>,
       settings |-> DefaultSettings] }

MergeStoreInit ==
    /\ \E cfg \in MergeStores :
           /\ identities = cfg.identities
           /\ rules = cfg.rules
           /\ settings = cfg.settings
    /\ store_result = "none"

MergeNext ==
    \/ Import
    \/ RemoveIdentity
    \/ RuleRemove

\* import into a store that holds identities or rules, and removals
InitMerge == MergeStoreInit /\ MatchIdle /\ ResolveIdle /\ FixIdle /\ AuditIdle /\ TransferIdle /\ SwitchIdle

SpecMerge == InitMerge /\ [][MergeNext]_vars

TransferStoreInit ==
    /\ \E cfg \in TransferStores :
           /\ identities = cfg.identities
           /\ rules = cfg.rules
           /\ settings = cfg.settings
    /\ store_result = "none"

TransferNext ==
    \/ Export
    \/ ImportExported
    \/ RemoveIdentity
    \/ RuleRemove

\* export, removal of identities and rules, and import of the exported file
InitTransfer ==
    TransferStoreInit /\ MatchIdle /\ ResolveIdle /\ FixIdle /\ AuditIdle /\ TransferIdle /\ SwitchIdle

SpecTransfer == InitTransfer /\ [][TransferNext]_vars

\* The git configuration before the tool runs; outside a repository there is
\* no local configuration
SwitchResolveInit ==
    /\ gid_file = None
    /\ cwd = DirWork
    /\ origin_url = None
    /\ in_repo \in BOOLEAN
    /\ git_local \in LocalGitConfigs
    /\ ~in_repo => git_local = EmptyGitConfig
    /\ git_global \in GlobalGitConfigs
    /\ auto_out = None
    /\ expected = None

SwitchNext ==
    \/ Switch
    \/ Current

\* switch and current, any number of times
InitSwitch ==
    FixStoreInit /\ MatchIdle /\ SwitchResolveInit /\ FixIdle /\ AuditIdle
    /\ TransferIdle /\ SwitchIdle

SpecSwitch == InitSwitch /\ [][SwitchNext]_vars


----------------------------------------------------------------------------
(* Claims about the rule matcher *)

\* A rule is enabled and its pattern matches the field of the context that
\* belongs to its kind
C1_Applies(rule, ctx, home) ==
    /\ rule.enabled
    /\ \/ /\ rule.kind = "remote"
          /\ IsSome(ctx.remote_url)
          /\ matches_remote(rule, Unwrap(ctx.remote_url))
       \/ /\ rule.kind = "path"
          /\ IsSome(ctx.path)
          /\ matches_path(rule, Unwrap(ctx.path), home)

C1_Applicable ==
    {j \in 1..Len(rules) : C1_Applies(rules[j], m_context, home_dir)}

C1_Sorted ==
    \A i, j \in 1..Len(rules) : i < j => rules[i].priority <= rules[j].priority

\* C1: match_context returns the first rule, in stored order, that is enabled
\* and whose pattern matches the field of the context belonging to its kind;
\* when the stored list is sorted by priority that rule has the smallest
\* priority among all such rules; and it returns None exactly when there is
\* no such rule.
C1_MatchFirstIsFirstApplicable ==
    IsSome(m_first) =>
        LET i == Unwrap(m_first)
        IN  /\ (i = 0) <=> (C1_Applicable = {})
            /\ i # 0 => /\ i \in C1_Applicable
                        /\ \A j \in C1_Applicable : i <= j
            /\ (i # 0 /\ C1_Sorted) =>
                   \A j \in C1_Applicable : rules[i].priority <= rules[j].priority

\* Two rules of different priority apply and the stored list is sorted
C1_Witness ==
    /\ IsSome(m_first)
    /\ Unwrap(m_first) = 1
    /\ C1_Sorted
    /\ C1_Applicable = {1, 2}
    /\ rules[1].priority < rules[2].priority
    /\ rules[1].kind # rules[2].kind

----------------------------------------------------------------------------
(* Claims about identity resolution *)

\* C2: in auto, when a Project Config is present for the current directory
\* its identity wins unconditionally: auto does not consult the rules and
\* does not switch to a rule-matched identity.
C2_ProjectConfigPreemptsRules ==
    (IsSome(auto_out) /\ load_from_dir(gid_file).tag = "some") =>
        /\ ~Unwrap(auto_out).rules_consulted
        /\ Unwrap(auto_out).via # "rule"

\* C3: the audit's expected identity is the Project Config's identity id
\* whenever a Project Config is present, whatever the rules would match; the
\* first matching rule's identity when none is present; and none when there
\* is neither.
C3_ExpectedIdentityFromProjectConfig ==
    IsSome(expected) =>
        LET project_config == load_from_dir(gid_file)
            matched == match_context(rules, MatchContext(Some(cwd), origin_url),
                                     home_dir)
        IN  IF project_config.tag = "some"
            THEN Unwrap(expected) = Some(project_config.identity)
            ELSE IF IsSome(matched)
                 THEN Unwrap(expected) = Some(Unwrap(matched).identity)
            ELSE Unwrap(expected) = None

\* A Project Config is present and a rule matches another identity
C3_Witness ==
    LET project_config == load_from_dir(gid_file)
        matched == match_context(rules, MatchContext(Some(cwd), origin_url),
                                 home_dir)
    IN  /\ IsSome(expected)
        /\ project_config.tag = "some"
        /\ IsSome(matched)
        /\ Unwrap(matched).identity # project_config.identity
        /\ Unwrap(expected) = Some(project_config.identity)

----------------------------------------------------------------------------
(* Claims about fix-commit *)

\* The repository is as it was when the running command started
FixRepoUnchanged ==
    /\ odb = f_pre.odb
    /\ refs = f_pre.refs
    /\ head = f_pre.head

\* The commit HEAD resolved to when the running command started
FixOriginalOid == HeadOid(f_pre.head, f_pre.refs)

\* A HEAD fix has run to its successful end
FixSucceeded == f_pc = "done" /\ f_result = "ok" /\ f_new # 0

\* C4: with an uncommitted change in the working tree, or with a
\* single-commit target other than "HEAD", fix-commit returns an error
\* without creating a commit object and with HEAD and every branch unchanged.
C4_PreconditionsRejectedBeforeMutation ==
    (/\ f_pc # "idle"
     /\ \/ f_pre.statuses # {}
        \/ f_args.range = None /\ f_args.commit_ref # "HEAD")
    => /\ f_pc = "done"
       /\ f_result = "err"
       /\ FixRepoUnchanged

\* A fix of HEAD to a stored identity that only the untracked file stops
C4_Witness ==
    /\ f_pc = "done"
    /\ f_result = "err"
    /\ f_pre.statuses = {"untracked"}
    /\ f_args = [commit_ref |-> "HEAD", identity_id |-> Some(IdWork),
                 range |-> None, yes |-> TRUE]
    /\ FixOriginalOid # 0

\* C5: after a successful HEAD fix to identity X the HEAD commit has X's name
\* and e-mail as author, and the tree, the message and the committer of the
\* original commit.
C5_HeadFixEffect ==
    FixSucceeded =>
        LET fixed == odb[HeadOid(head, refs)]
            original == f_pre.odb[FixOriginalOid]
        IN  /\ fixed.author.name = Unwrap(f_identity).name
            /\ fixed.author.email = Unwrap(f_identity).email
            /\ fixed.tree = original.tree
            /\ fixed.message = original.message
            /\ fixed.committer = original.committer

\* C6: the commit a HEAD fix creates has exactly the parents of the original
\* commit, in the same order.
C6_ParentsPreserved ==
    FixSucceeded => odb[f_new].parents = f_pre.odb[FixOriginalOid].parents

\* C7: after a successful HEAD fix on a branch, that branch points to the
\* new commit, HEAD still names the branch and no other ref has changed;
\* with a detached HEAD, HEAD is detached at the new commit.  At every step
\* of the command HEAD resolves to the original or to the new commit.
C7_HeadRepointed ==
    /\ f_pc # "idle" =>
           \/ HeadOid(head, refs) = FixOriginalOid
           \/ f_new # 0 /\ HeadOid(head, refs) = f_new
    /\ FixSucceeded =>
           IF f_pre.head.kind = "branch"
           THEN /\ head = f_pre.head
                /\ refs[head.name] = f_new
                /\ \A b \in BranchNames \ {head.name} : refs[b] = f_pre.refs[b]
           ELSE /\ head = Detached(f_new)
                /\ refs = f_pre.refs

\* A successful fix on a branch, with another branch in the repository
C7_Witness ==
    /\ FixSucceeded
    /\ f_pre.head = OnBranch("main")
    /\ f_pre.refs["dev"] # 0
    /\ refs["main"] = f_new
    /\ f_new # FixOriginalOid

\* C8: a fix-range request creates no commit object and leaves HEAD and every
\* ref as they were, confirmed or not; a range argument that names a single
\* revision is rejected with an error.
C8_RangeNeverRewrites ==
    (f_pc # "idle" /\ IsSome(f_args.range)) =>
        /\ FixRepoUnchanged
        /\ f_new = 0
        /\ (f_pc = "done" /\ f_args.range = Some("HEAD")) => f_result = "err"

\* A confirmed request for a range that holds a commit
C8_Witness ==
    /\ f_pc = "done"
    /\ f_result = "ok"
    /\ f_args.range = Some("HEAD~1..HEAD")
    /\ f_answer = "yes"
    /\ FixRepoUnchanged

\* C9: without --yes no step of either path changes the repository before
\* the confirmation was given; a declined confirmation leaves the repository
\* unchanged and the command returns success; with --yes nothing is asked.
C9_ConfirmationBeforeMutation ==
    /\ (/\ f_pc # "idle"
        /\ ~f_args.yes
        /\ \/ ~FixRepoUnchanged
           \/ f_pc \in {"write", "update_head", "range_report"})
       => f_answer = "yes"
    /\ f_answer = "no" =>
           /\ FixRepoUnchanged
           /\ f_pc = "done"
           /\ f_result = "ok"
    /\ (f_pc # "idle" /\ f_args.yes) =>
           /\ f_answer = "none"
           /\ f_pc \notin {"confirm_single", "confirm_range"}

\* A single-commit fix that was declined at the prompt
C9_Witness ==
    /\ f_pc = "done"
    /\ f_answer = "no"
    /\ f_args.range = None
    /\ f_args.commit_ref = "HEAD"
    /\ ~f_args.yes

----------------------------------------------------------------------------
(* Claims about the identity store *)

\* C10: identity ids are unique within the store in every state reachable by
\* add identity, remove identity and import (merge, replace, or import into a
\* store with no identities and no rules): no two stored identities share an id.
C10_IdentityIdsUnique ==
    \A i, j \in 1..Len(identities) :
        i # j => identities[i].id # identities[j].id

\* C11: in every state of the store reachable by rule add, rule remove and
\* import the stored rules are sorted by priority in non-decreasing order.
C11_RulesSortedByPriority ==
    \A i, j \in 1..Len(rules) : i < j => rules[i].priority <= rules[j].priority

\* C12: in every state reachable by add identity, remove identity, rule add
\* and rule remove, the identity field of every stored rule is the id of a
\* stored identity.
C12_RuleIdentitiesExist ==
    \A i \in 1..Len(rules) : IsSome(find_identity(identities, rules[i].identity))

\* The field of the context that belongs to the rule's kind is present and
\* the rule's pattern matches it
C13_KindFieldPresent(rule) ==
    /\ rule.kind = "path" =>
           /\ IsSome(m_context.path)
           /\ matches_path(rule, Unwrap(m_context.path), home_dir)
    /\ rule.kind = "remote" =>
           /\ IsSome(m_context.remote_url)
           /\ matches_remote(rule, Unwrap(m_context.remote_url))

\* C13: a rule returned by match_context or by match_all is a Path rule only
\* if the context carries a path and a Remote rule only if the context
\* carries a remote URL: with only a remote URL no Path rule is returned, with
\* only a path no Remote rule.
C13_KindMatchesContextField ==
    /\ (IsSome(m_first) /\ Unwrap(m_first) # 0) =>
           C13_KindFieldPresent(rules[Unwrap(m_first)])
    /\ IsSome(m_all) =>
           \A k \in 1..Len(Unwrap(m_all)) : C13_KindFieldPresent(Unwrap(m_all)[k])

\* A context with only a path, a Remote rule stored before a Path rule that
\* matches: the Path rule is the one returned
C13_Witness ==
    /\ m_context.remote_url = None
    /\ IsSome(m_context.path)
    /\ Len(rules) = 2
    /\ rules[1].kind = "remote" /\ rules[1].enabled
    /\ rules[2].kind = "path"
    /\ m_first = Some(2)
    /\ m_all = Some(<<rules[2]>>)

\* C14: match_all returns exactly the enabled rules that match the context,
\* in stored order; no disabled rule is returned by match_all or by
\* match_context; and match_context returns the first element of match_all's
\* result, None when that result is empty.
C14_MatchAllAndFirstAgree ==
    /\ IsSome(m_all) =>
           /\ Unwrap(m_all) =
                  SelectSeq(rules, LAMBDA r : C1_Applies(r, m_context, home_dir))
           /\ \A k \in 1..Len(Unwrap(m_all)) : Unwrap(m_all)[k].enabled
    /\ (IsSome(m_first) /\ Unwrap(m_first) # 0) => rules[Unwrap(m_first)].enabled
    /\ (IsSome(m_first) /\ IsSome(m_all)) =>
           IF Unwrap(m_all) = <<>>
           THEN Unwrap(m_first) = 0
           ELSE /\ Unwrap(m_first) # 0
                /\ rules[Unwrap(m_first)] = Unwrap(m_all)[1]

\* A disabled rule whose pattern matches is stored before an enabled rule
\* that matches: both methods skip it
C14_Witness ==
    /\ Len(rules) = 2
    /\ ~rules[1].enabled
    /\ C1_Applies([rules[1] EXCEPT !.enabled = TRUE], m_context, home_dir)
    /\ m_all = Some(<<rules[2]>>)
    /\ m_first = Some(2)

----------------------------------------------------------------------------
(* Claims about the audit *)

\* An audit has run to its result
AuditDone == IsSome(audit_result) /\ Unwrap(audit_result).ok

\* The commit's e-mail is the e-mail of a configured identity
AuditKnown(c) == \E i \in 1..Len(identities) : identities[i].email = c.author_email

\* The identity id the commit's pair resolves to: the first identity with that
\* name and e-mail, else the first with that e-mail
AuditResolved(c) ==
    LET exact == {i \in 1..Len(identities) :
                     /\ identities[i].email = c.author_email
                     /\ identities[i].name = c.author_name}
        by_email == {i \in 1..Len(identities) : identities[i].email = c.author_email}
        first(S) == CHOOSE i \in S : \A j \in S : i <= j
    IN  IF exact # {} THEN identities[first(exact)].id
        ELSE identities[first(by_email)].id

\* The number of issues of that type the result holds for the commit
AuditIssueCount(issue_type, c) ==
    LET issues == Unwrap(audit_result).issues
    IN  Cardinality({i \in 1..Len(issues) :
                        /\ issues[i].issue_type = issue_type
                        /\ issues[i].commit_id = c.id})

\* The commits of the history that carry the pair of commit c
AuditSamePair(c) ==
    {k \in 1..Len(commits) :
        /\ commits[k].author_name = c.author_name
        /\ commits[k].author_email = c.author_email}

\* C15: every commit whose (author name, author e-mail) pair matches no
\* configured identity yields exactly one UnknownIdentity issue, and the
\* commits carrying one pair are aggregated into one usage entry whose
\* commit_count is the number of those commits; total_commits is the number
\* of commits.
C15_UnknownIdentityAggregated ==
    AuditDone =>
        LET r == Unwrap(audit_result)
            used == r.identities_used
        IN  /\ r.total_commits = Len(commits)
            /\ \A k \in 1..Len(commits) :
                   LET c == commits[k]
                       entries == {key \in DOMAIN used :
                                      /\ used[key].name = c.author_name
                                      /\ used[key].email = c.author_email}
                   IN  /\ ~AuditKnown(c) => AuditIssueCount("UnknownIdentity", c) = 1
                       /\ Cardinality(entries) = 1
                       /\ \A key \in entries :
                              used[key].commit_count = Cardinality(AuditSamePair(c))
            /\ Cardinality(DOMAIN used) =
                   Cardinality({<<commits[k].author_name, commits[k].author_email>> :
                                   k \in 1..Len(commits)})

\* Two commits by one pair that matches no configured identity
C15_Witness ==
    /\ AuditDone
    /\ commits = History(<<AuthorEve, AuthorEve>>)
    /\ identities = <<IdentityWork, IdentityHome>>
    /\ Unwrap(audit_result).total_commits = 2
    /\ Len(Unwrap(audit_result).issues) = 2
    /\ \A i \in 1..2 : Unwrap(audit_result).issues[i].issue_type = "UnknownIdentity"
    /\ Cardinality(DOMAIN Unwrap(audit_result).identities_used) = 1
    /\ \A key \in DOMAIN Unwrap(audit_result).identities_used :
           Unwrap(audit_result).identities_used[key].commit_count = 2

\* The identity ids the known commits of the history resolve to
AuditKnownIds ==
    {AuditResolved(commits[k]) : k \in {j \in 1..Len(commits) : AuditKnown(commits[j])}}

\* The number of commits of the history that resolve to the identity id
AuditTotal(id) ==
    Cardinality({k \in 1..Len(commits) :
                    AuditKnown(commits[k]) /\ AuditResolved(commits[k]) = id})

\* C16: when the history holds commits of two known identities with different
\* commit counts, the MixedIdentities issues are exactly the commits of the
\* known identity with the lower commit count, one issue for each.
C16_MixedFlagsLessUsedIdentity ==
    (AuditDone /\ Cardinality(AuditKnownIds) = 2) =>
        \A low, high \in AuditKnownIds :
            AuditTotal(low) < AuditTotal(high) =>
                \A k \in 1..Len(commits) :
                    AuditIssueCount("MixedIdentities", commits[k]) =
                        IF AuditKnown(commits[k]) /\ AuditResolved(commits[k]) = low
                        THEN 1 ELSE 0

\* C17: IdentityMismatch is emitted for a commit exactly when its pair is
\* known, an expected identity was determined and the identity id the pair
\* resolves to differs from it; with no expected identity there is no
\* IdentityMismatch issue.
C17_IdentityMismatchExactly ==
    AuditDone =>
        /\ IsSome(expected)
        /\ \A k \in 1..Len(commits) :
               AuditIssueCount("IdentityMismatch", commits[k]) =
                   IF /\ AuditKnown(commits[k])
                      /\ IsSome(Unwrap(expected))
                      /\ AuditResolved(commits[k]) # Unwrap(Unwrap(expected))
                   THEN 1 ELSE 0
        /\ Unwrap(expected) = None =>
               \A i \in 1..Len(Unwrap(audit_result).issues) :
                   Unwrap(audit_result).issues[i].issue_type # "IdentityMismatch"

\* The expected identity is "h"; of a commit matched by e-mail only to "wk"
\* and a commit of "h", the first is a mismatch and the second is not
C17_Witness ==
    /\ AuditDone
    /\ expected = Some(Some(IdHome))
    /\ identities = <<IdentityWork, IdentityHome>>
    /\ commits = History(<<AuthorWorkAlias, AuthorHome>>)
    /\ AuditIssueCount("IdentityMismatch", commits[1]) = 1
    /\ AuditIssueCount("IdentityMismatch", commits[2]) = 0

----------------------------------------------------------------------------
(* Claims about export and import *)

\* C18: importing the file an export wrote, into a store with no identities
\* and no rules or in replace mode, leaves a store whose identities and rules
\* equal, field for field and in order, those of the exported configuration.
C18_ExportImportRoundTrip ==
    [][(ImportExported /\ import_mode' \in {"fresh", "replace"}) =>
           /\ identities' = Unwrap(export_source).identities
           /\ rules' = Unwrap(export_source).rules]_vars

\* The export of two identities and two rules, one of them disabled, was
\* imported in replace mode
C18_Witness ==
    /\ import_mode = "replace"
    /\ IsSome(export_source)
    /\ Len(Unwrap(export_source).identities) = 2
    /\ Len(Unwrap(export_source).rules) = 2
    /\ ~Unwrap(export_source).rules[2].enabled
    /\ identities = Unwrap(export_source).identities
    /\ rules = Unwrap(export_source).rules

----------------------------------------------------------------------------
(* Claims about the git configuration *)

\* C19: a switch to the identity and scope of the successful switch just
\* before it leaves user.name, user.email, user.signingkey and commit.gpgsign
\* of the local and of the global configuration, and so the effective name
\* and e-mail, as that first switch left them.
C19_SwitchIdempotent ==
    [][\A identity_id \in {IdWork, IdHome, IdGhost}, global_flag \in BOOLEAN :
          (/\ SwitchCmd(identity_id, global_flag)
           /\ IsSome(sw_last)
           /\ Unwrap(sw_last).identity_id = identity_id
           /\ Unwrap(sw_last).global = global_flag
           /\ Unwrap(sw_last).ok)
          => /\ git_local' = git_local
             /\ git_global' = git_global
             /\ get_effective_user_name(git_local', git_global') =
                    get_effective_user_name(git_local, git_global)
             /\ get_effective_user_email(git_local', git_global') =
                    get_effective_user_email(git_local, git_global)]_vars

\* The identity with a gpg key was switched to twice in a row in the
\* repository
C19_Witness ==
    /\ IsSome(sw_last)
    /\ Unwrap(sw_last).times = 2
    /\ Unwrap(sw_last).identity_id = IdWork
    /\ ~Unwrap(sw_last).global
    /\ git_local = SwitchWrites(EmptyGitConfig, IdentityWork)

\* C20: the effective name is the local name if there is one and the global
\* name otherwise, and the same holds for the e-mail independently: with a
\* local name and no local e-mail the effective name is the local one and the
\* effective e-mail the global one; with neither value the result is none.
C20_EffectivePerField ==
    IsSome(effective) =>
        LET e == Unwrap(effective)
        IN  /\ IsSome(git_local.name) => e.name = git_local.name
            /\ ~IsSome(git_local.name) => e.name = git_global.name
            /\ IsSome(git_local.email) => e.email = git_local.email
            /\ ~IsSome(git_local.email) => e.email = git_global.email
            /\ (~IsSome(git_local.name) /\ ~IsSome(git_global.name)) => e.name = None
            /\ (~IsSome(git_local.email) /\ ~IsSome(git_global.email)) => e.email = None

\* A local name without a local e-mail, and a global e-mail
C20_Witness ==
    /\ IsSome(effective)
    /\ IsSome(git_local.name)
    /\ ~IsSome(git_local.email)
    /\ IsSome(git_global.email)
    /\ Unwrap(effective).name = git_local.name
    /\ Unwrap(effective).email = git_global.email
    /\ git_global.name # git_local.name

----------------------------------------------------------------------------
(* Claims about the project marker file *)

\* C21: parsing a .gid file.  Empty or whitespace-only content gives no
\* Project Config.  Bare content (no '=' and no '[') gives its first line,
\* trimmed, as the identity id with an empty rule list when every character
\* of it is alphanumeric, '_' or '-' ("work\n" gives "work"), and an error
\* otherwise.  Content with '=' or '[' is parsed only as the structured form:
\* a failing structured parse is an error, never a fall back to the bare form.
C21_ProjectFileParse ==
    IsSome(gid_file) =>
        LET content == Unwrap(gid_file)
            parsed == ProjectConfigParse(content)
            blank == \A i \in 1..Len(content) : IsWhitespace(content[i])
            structured == ContainsChar(content, "=") \/ ContainsChar(content, "[")
            line == Trim(FirstLine(TrimLeft(content)))
        IN  /\ blank => parsed.tag = "none"
            /\ (~blank /\ ~structured /\ AllIdChars(line)) =>
                   parsed = [tag |-> "some", identity |-> line, rules |-> <<>>]
            /\ (~blank /\ ~structured /\ ~AllIdChars(line)) => parsed.tag = "err"
            /\ (~blank /\ structured) =>
                   /\ parsed.tag \in {"some", "err"}
                   /\ parsed = toml_from_str(Trim(content))
            /\ content = GidWork => parsed.identity = IdWork

\* The audit resolved its expected identity from the bare file "wk\n"
C21_Witness ==
    /\ gid_file = Some(GidWork)
    /\ IsSome(expected)
    /\ Unwrap(expected) = Some(IdWork)

----------------------------------------------------------------------------
(* Claims about rejected commands and rule removal *)

\* The add arguments that the command must reject on the store ids
AddRejected(ids, a) ==
    \/ a[1] = <<>>
    \/ ~AllIdChars(a[1])
    \/ a[2] = ""
    \/ ~ContainsChar(a[3], "@")
    \/ ~ContainsChar(a[3], ".")
    \/ \E i \in 1..Len(ids) : ids[i].id = a[1]

\* C22: every rejected store-mutating command returns an error and leaves
\* identities and rules unchanged: add with an empty or malformed id, an
\* empty name, an e-mail lacking '@' or '.', or an id already in the store;
\* remove with an unknown id; rule add naming an identity not in the store;
\* rule remove with an index not below the number of rules.
C22_RejectedCommandsChangeNothing ==
    [][ /\ store_result' = "err" => (identities' = identities /\ rules' = rules)
        /\ \A a \in AddArgs : AddRejected(identities, a) =>
               AddExecute(identities, a[1], a[2], a[3], a[4]) =
                   [ok |-> FALSE, identities |-> identities]
        /\ \A id \in {IdWork, IdHome, IdGhost}, confirm \in BOOLEAN :
               (\A i \in 1..Len(identities) : identities[i].id # id) =>
                   RemoveExecute(identities, id, confirm) =
                       [ok |-> FALSE, identities |-> identities]
        /\ \A a \in RuleAddArgs :
               (\A i \in 1..Len(identities) : identities[i].id # a[3]) =>
                   RuleAddExecute(identities, rules, a[1], a[2], a[3], a[4]) =
                       [ok |-> FALSE, rules |-> rules]
        /\ \A index \in 0..MaxStoreRules, confirm \in BOOLEAN :
               index >= Len(rules) =>
                   RuleRemoveExecute(rules, index, confirm) =
                       [ok |-> FALSE, rules |-> rules]
      ]_vars

\* A command was rejected on a store that holds identities and rules
C22_Witness ==
    /\ store_result = "err"
    /\ identities # <<>>
    /\ rules # <<>>

----------------------------------------------------------------------------
(* Claims about mixed identities, classification and the commit count *)

\* C23: MixedIdentities issues are raised only if more than one distinct
\* known identity appears: a history whose known commits all resolve to the
\* same identity id (the same e-mail under two author names, say) produces
\* no MixedIdentities issue.
C23_MixedNeedsTwoIdentities ==
    (AuditDone /\ Cardinality(AuditKnownIds) <= 1) =>
        \A i \in 1..Len(Unwrap(audit_result).issues) :
            Unwrap(audit_result).issues[i].issue_type # "MixedIdentities"

\* The position in the walk from HEAD of the first commit of a usage entry
AuditFirstSeen(entry) ==
    CHOOSE k \in 1..Len(commits) :
        /\ commits[k].author_name = entry.name
        /\ commits[k].author_email = entry.email
        /\ \A j \in 1..(k - 1) : \/ commits[j].author_name # entry.name
                                 \/ commits[j].author_email # entry.email

\* C24: when several known identities tie for the lowest commit count, the
\* one flagged is the first of them encountered in the traversal (most recent
\* commit first), so that two audits of the same history with the same store
\* flag the same commits.
C24_TieFlagsFirstEncountered ==
    AuditDone =>
        LET used == Unwrap(audit_result).identities_used
            tied == MinUsageKeys(used)
        IN  (Cardinality(KnownKeys(used)) > 1 /\ Cardinality(tied) > 1) =>
                \A key \in tied :
                    (\A other \in tied :
                        AuditFirstSeen(used[key]) <= AuditFirstSeen(used[other])) =>
                        \A k \in 1..Len(commits) :
                            AuditIssueCount("MixedIdentities", commits[k]) =
                                IF /\ commits[k].author_name = used[key].name
                                   /\ commits[k].author_email = used[key].email
                                THEN 1 ELSE 0

\* C25: a commit key is classified once, when it is first seen: known with
\* the id of the first stored identity whose name and e-mail both match; only
\* if there is none, known with the id of the first identity whose e-mail
\* matches; otherwise unknown with no id.  An exact match on a later identity
\* wins over an e-mail-only match on an earlier one.
C25_ClassifiedExactThenEmail ==
    AuditDone =>
        LET used == Unwrap(audit_result).identities_used
        IN  \A key \in DOMAIN used :
                LET c == [author_name |-> used[key].name,
                          author_email |-> used[key].email]
                IN  /\ used[key].is_known = AuditKnown(c)
                    /\ used[key].identity_id =
                           IF AuditKnown(c) THEN Some(AuditResolved(c)) ELSE None

\* With "Ann Work" stored before "A. Work" under one e-mail, a commit by
\* "A. Work" is classified as the later identity and a commit by "Bob" with
\* that e-mail as the earlier one
C25_Witness ==
    /\ AuditDone
    /\ identities = <<IdentityWork, IdentityWorkAlias>>
    /\ commits = History(<<AuthorWorkAlias, AuthorWorkBob, AuthorWorkAlias>>)
    /\ LET used == Unwrap(audit_result).identities_used
       IN  /\ used[UsageKey("A. Work", EmailWork)].identity_id = Some(IdGhost)
           /\ used[UsageKey("A. Work", EmailWork)].commit_count = 2
           /\ used[UsageKey("Bob", EmailWork)].identity_id = Some(IdWork)

\* The sum of commit_count over the usage entries with the given keys
RECURSIVE AuditCountSum(_, _)
AuditCountSum(used, keys) ==
    IF keys = {} THEN 0
    ELSE LET key == CHOOSE k \in keys : TRUE
         IN  used[key].commit_count + AuditCountSum(used, keys \ {key})

\* C26: total_commits equals the number of commits reachable from HEAD,
\* capped at 1000 (the most recent 1000, by truncation), and the sum of
\* commit_count over all usage entries equals total_commits.
C26_TotalCommitsCapped ==
    AuditDone =>
        LET r == Unwrap(audit_result)
            used == r.identities_used
            cap == IF Len(commits) < 1000 THEN Len(commits) ELSE 1000
        IN  /\ r.total_commits = cap
            /\ AuditCountSum(used, DOMAIN used) = r.total_commits
            /\ \A key \in DOMAIN used :
                   \E k \in 1..cap :
                       /\ commits[k].author_name = used[key].name
                       /\ commits[k].author_email = used[key].email

\* A history of 1001 commits whose oldest commit alone is by another author:
\* the audit counts 1000 commits in one usage entry
C26_Witness ==
    /\ AuditDone
    /\ Len(commits) = 1001
    /\ commits[1001].author_name # commits[1].author_name
    /\ Unwrap(audit_result).total_commits = 1000
    /\ Cardinality(DOMAIN Unwrap(audit_result).identities_used) = 1

\* C27: remove_rule(i) with i below the number of rules removes exactly the
\* rule at position i of the current sorted collection and returns it; the
\* other rules stay and keep their relative order, and the collection stays
\* sorted.
C27_RemoveRuleByPosition ==
    [][ /\ \A index \in 0..(Len(rules) - 1) :
               LET r == remove_rule(rules, index)
               IN  /\ r.ok
                   /\ r.removed = Some(rules[index + 1])
                   /\ Len(r.rules) = Len(rules) - 1
                   /\ \A k \in 1..Len(r.rules) :
                          r.rules[k] = rules[IF k <= index THEN k ELSE k + 1]
                   /\ (\A k \in 1..(Len(rules) - 1) :
                           rules[k].priority <= rules[k + 1].priority) =>
                      (\A k \in 1..(Len(r.rules) - 1) :
                           r.rules[k].priority <= r.rules[k + 1].priority)
        /\ Len(rules') < Len(rules) =>
               /\ store_result' = "ok"
               /\ \E index \in 0..(Len(rules) - 1) :
                      /\ Len(rules') = Len(rules) - 1
                      /\ \A k \in 1..Len(rules') :
                             rules'[k] = rules[IF k <= index THEN k ELSE k + 1]
      ]_vars

\* Three rules were stored, two of one priority, and one removal left two:
\* the first and the last of the three, in that order
C27_Witness ==
    /\ store_result = "ok"
    /\ rules = <<RuleNew("path", PathWork, IdWork, 10),
                 RuleNew("remote", RemoteCorp, IdWork, default_priority)>>
    /\ identities = <<IdentityWork, IdentityHome>>

----------------------------------------------------------------------------
(* Claims about switch without a gpg key, import in merge mode and an      *)
(* unreadable project file                                                 *)

\* C28: a successful switch to an identity with no gpg key writes only
\* user.name and user.email in the chosen scope and leaves that scope's
\* user.signingkey and commit.gpgsign as they were (an earlier signing key is
\* not cleared); the other scope is never written.
C28_SwitchWithoutGpgKey ==
    [][\A identity_id \in {IdWork, IdHome, IdGhost}, global_flag \in BOOLEAN :
          (/\ SwitchCmd(identity_id, global_flag)
           /\ Unwrap(sw_last').ok
           /\ \E i \in 1..Len(identities) :
                  /\ identities[i].id = identity_id
                  /\ identities[i].gpg_key = None)
          => LET identity == Unwrap(find_identity(identities, identity_id))
                 before == IF global_flag THEN git_global ELSE git_local
                 after == IF global_flag THEN git_global' ELSE git_local'
             IN  /\ after.name = Some(identity.name)
                 /\ after.email = Some(identity.email)
                 /\ after.signingkey = before.signingkey
                 /\ after.gpgsign = before.gpgsign
                 /\ global_flag => git_local' = git_local
                 /\ ~global_flag => git_global' = git_global]_vars

\* The identity without a gpg key was switched to in a repository whose
\* configuration holds the signing key of an earlier switch
C28_Witness ==
    /\ IsSome(sw_last)
    /\ Unwrap(sw_last).ok
    /\ Unwrap(sw_last).identity_id = IdHome
    /\ ~Unwrap(sw_last).global
    /\ git_local.name = Some("Ann")
    /\ git_local.signingkey = Some("KEY1")
    /\ IsSome(git_local.gpgsign)

\* C29: import in merge mode never modifies, replaces or removes an identity
\* already in the store: an imported identity whose id exists is skipped, the
\* new ids are appended in the order of the file, every imported rule is
\* added through the priority-sorted insertion (also when an equal rule is
\* already stored), and the stored settings are unchanged.
C29_MergeKeepsStoredIdentities ==
    \A file \in ImportFiles, confirm \in BOOLEAN :
        ImportMode(StoreConfig, file, "1", confirm) = "merge" =>
            LET after == ImportExecute(StoreConfig, file, "1", confirm)
                fresh == {k \in 1..Len(file.identities) :
                             /\ \A i \in 1..Len(identities) :
                                    identities[i].id # file.identities[k].id
                             /\ \A j \in 1..(k - 1) :
                                    file.identities[j].id # file.identities[k].id}
                added == SubSeq(after.identities, Len(identities) + 1,
                                Len(after.identities))
                from(n) == CHOOSE k \in fresh : file.identities[k] = added[n]
            IN  /\ SubSeq(after.identities, 1, Len(identities)) = identities
                /\ Len(added) = Cardinality(fresh)
                /\ \A n \in 1..Len(added) :
                       \E k \in fresh : file.identities[k] = added[n]
                /\ \A m, n \in 1..Len(added) : m < n => from(m) < from(n)
                /\ after.rules = IF file.rules = <<>> THEN rules
                                 ELSE SortByPriority(rules \o file.rules)
                /\ Len(after.rules) = Len(rules) + Len(file.rules)
                /\ after.settings = settings

\* A merge into a store that holds the identity "wk" and a rule, of a file
\* with another identity "wk", the identity "h" and a rule equal to the
\* stored one: the stored "wk" stays, "h" is appended, the rule is stored twice
C29_Witness ==
    /\ import_mode = "merge"
    /\ identities = <<IdentityWork, IdentityHome>>
    /\ rules = <<RuleNew("remote", RemoteCorp, IdWork, default_priority),
                 RuleNew("remote", RemoteCorp, IdWork, default_priority)>>
    /\ settings = DefaultSettings

\* C30: when the .gid file exists but does not parse (an invalid bare id or a
\* malformed structured form), auto and the audit's resolution of the
\* expected identity report no error of it and behave as if no Project
\* Config were present, falling through to the rule matching.
C30_UnparsableProjectFileIgnored ==
    (IsSome(gid_file) /\ ProjectConfigParse(Unwrap(gid_file)).tag = "err") =>
        LET without == AutoExecute(identities, rules, None, cwd, origin_url,
                                   home_dir, in_repo, git_local, git_global)
            matched == match_context(rules, MatchContext(Some(cwd), origin_url),
                                     home_dir)
        IN  /\ IsSome(auto_out) =>
                   /\ Unwrap(auto_out).ok = without.ok
                   /\ Unwrap(auto_out).via = without.via
                   /\ Unwrap(auto_out).identity = without.identity
                   /\ Unwrap(auto_out).via # "project"
                   /\ in_repo => Unwrap(auto_out).rules_consulted
                   /\ (in_repo /\ ~IsSome(matched)) => Unwrap(auto_out).ok
            /\ IsSome(expected) =>
                   Unwrap(expected) =
                       IF IsSome(matched) THEN Some(Unwrap(matched).identity)
                       ELSE None

\* With the malformed structured file "[h", auto switched to the identity of
\* the matching rule and the audit expects that identity
C30_Witness ==
    /\ gid_file = Some(GidTomlBroken)
    /\ IsSome(auto_out)
    /\ Unwrap(auto_out).ok
    /\ Unwrap(auto_out).via = "rule"
    /\ IsSome(expected)
    /\ Unwrap(expected) = Unwrap(auto_out).identity

=============================================================================
